---- MODULE Spec2Model ----
(***************************************************************************)
(* xsd2ts: the schema graph (Context, Schema, Element, Attribute,          *)
(* SimpleType, ComplexType, TypeReference) of src/src/convert.ts, its      *)
(* loader (Context.loadSchema / Schema.fromXsd, driven by main) and its    *)
(* emission (toTS / toTSType / toTSField / toTSTypeExpr).                  *)
(*                                                                         *)
(* Text is a sequence of one-character strings, so that split(":"),        *)
(* startsWith, Number() and the numeric regular expression are computed    *)
(* as the code computes them.  Rendered TypeScript is kept as the tree of  *)
(* its parts (declarations, fields, type expressions).                     *)
(***************************************************************************)
EXTENDS Integers, Sequences, FiniteSets, TLC

VARIABLES
    schemas,    \* Context.schemas: ordered map namespace -> Schema
    roots,      \* main: the positional arguments
    next,       \* main: index of the next positional argument to load
    stack,      \* the chain of active Schema.fromXsd calls, innermost last
    phase,      \* main: "loading", "loaded", "printed" or "failed"
    error,      \* the Error that rejected main ("" while there is none)
    out,        \* what console.log printed (<<>> while nothing is printed)
    log,        \* the registrations done, in order (the console.error lines)
    stripPrefixes, \* Context.stripPrefixes
    node,       \* the XSD node handed to a fromXsd under test
    obj,        \* the object that fromXsd built from node
    ts          \* the text that object rendered

vars ==
    <<schemas, roots, next, stack, phase, error, out, log, stripPrefixes,
      node, obj, ts>>

loaderVars == <<schemas, roots, next, stack, phase, error, out, log>>
unitVars == <<node, obj, ts>>

(***************************************************************************)
(* Bounds of the model.                                                    *)
(***************************************************************************)
MaxRoots == 2
MaxDepth == 5
MaxSequence == 2
MaxChoice == 2
MaxEnumeration == 2
MaxFacets == 3
MaxPrefixes == 2
MaxReloads == 3

(***************************************************************************)
(* JavaScript values.                                                      *)
(***************************************************************************)
\* undefined, where a string (a sequence of characters) is expected
Undefined == <<"undefined!">>
\* null
Null == <<"null!">>

Truthy(s) == s # Undefined /\ s # Null /\ s # <<>>

Digits == {"0", "1", "2", "3", "4", "5", "6", "7", "8", "9"}

DigitVal(c) ==
    CASE c = "0" -> 0 [] c = "1" -> 1 [] c = "2" -> 2 [] c = "3" -> 3
      [] c = "4" -> 4 [] c = "5" -> 5 [] c = "6" -> 6 [] c = "7" -> 7
      [] c = "8" -> 8 [] c = "9" -> 9

\* a JavaScript number: a finite integer, Infinity or NaN
Num(n) == [t |-> "num", v |-> n]
Infinity == [t |-> "inf", v |-> 0]
NaN == [t |-> "nan", v |-> 0]

RECURSIVE DecimalValue(_)
DecimalValue(s) ==
    IF s = <<>> THEN 0
    ELSE 10 * DecimalValue(SubSeq(s, 1, Len(s) - 1)) + DigitVal(s[Len(s)])

\* Number(s) of a string of the model's alphabet: "" is 0, a run of digits
\* is its decimal value, anything else is NaN
Number(s) ==
    IF \A i \in 1..Len(s) : s[i] \in Digits THEN Num(DecimalValue(s)) ELSE NaN

\* x > 1
GreaterThanOne(x) == x.t = "inf" \/ (x.t = "num" /\ x.v > 1)

\* x === 0
IsZero(x) == x.t = "num" /\ x.v = 0

\* s.startsWith(p)
StartsWith(s, p) == Len(p) <= Len(s) /\ SubSeq(s, 1, Len(p)) = p

\* s.split(sep): the parts between the separators, empty parts kept
RECURSIVE Split(_, _)
Split(s, sep) ==
    IF \A i \in 1..Len(s) : s[i] # sep THEN <<s>>
    ELSE LET i == CHOOSE j \in 1..Len(s) :
                      s[j] = sep /\ \A k \in 1..(j - 1) : s[k] # sep
         IN  <<SubSeq(s, 1, i - 1)>> \o Split(SubSeq(s, i + 1, Len(s)), sep)

\* parts.at(-k)
At(parts, k) == IF k <= Len(parts) THEN parts[Len(parts) + 1 - k] ELSE Undefined

(***************************************************************************)
(* Map: an insertion-ordered map, a sequence of [key, val] entries.        *)
(***************************************************************************)
MapHas(m, k) == \E i \in 1..Len(m) : m[i].key = k

MapIndex(m, k) == CHOOSE i \in 1..Len(m) : m[i].key = k

MapGet(m, k) == m[MapIndex(m, k)].val

\* Map.set: a present key keeps its position and takes the new value
MapSet(m, k, v) ==
    IF MapHas(m, k)
    THEN [m EXCEPT ![MapIndex(m, k)] = [key |-> k, val |-> v]]
    ELSE Append(m, [key |-> k, val |-> v])

MapKeys(m) == [i \in 1..Len(m) |-> m[i].key]

MapValues(m) == [i \in 1..Len(m) |-> m[i].val]

KeySet(m) == {m[i].key : i \in 1..Len(m)}

(***************************************************************************)
(* Context.getTSTypeName.                                                  *)
(***************************************************************************)
LowerSeq ==
    <<"a", "b", "c", "d", "e", "f", "g", "h", "i", "j", "k", "l", "m",
      "n", "o", "p", "q", "r", "s", "t", "u", "v", "w", "x", "y", "z">>
UpperSeq ==
    <<"A", "B", "C", "D", "E", "F", "G", "H", "I", "J", "K", "L", "M",
      "N", "O", "P", "Q", "R", "S", "T", "U", "V", "W", "X", "Y", "Z">>
Lower == {LowerSeq[i] : i \in 1..Len(LowerSeq)}
Upper == {UpperSeq[i] : i \in 1..Len(UpperSeq)}

ToUpper(c) ==
    IF c \in Lower
    THEN UpperSeq[CHOOSE i \in 1..Len(LowerSeq) : LowerSeq[i] = c] ELSE c

ToLower(c) ==
    IF c \in Upper
    THEN LowerSeq[CHOOSE i \in 1..Len(UpperSeq) : UpperSeq[i] = c] ELSE c

\* toPascalCase of @std/text: the words of the name (cut at "_", "-" and
\* before a capital that follows a small letter), each with its first
\* letter raised and its other letters lowered, joined
RECURSIVE toPascalCase(_)
toPascalCase(name) ==
    LET Cap(i) == \/ i = 1
                  \/ name[i - 1] \in {"_", "-"}
                  \/ (name[i] \in Upper /\ name[i - 1] \in Lower)
        Conv(i) == IF name[i] \in {"_", "-"} THEN <<>>
                   ELSE IF Cap(i) THEN <<ToUpper(name[i])>>
                   ELSE <<ToLower(name[i])>>
    IN  IF name = <<>> THEN <<>>
        ELSE toPascalCase(SubSeq(name, 1, Len(name) - 1)) \o Conv(Len(name))

\* StripFrom without the break of line 89: every entry that matches what
\* is left of the name is stripped
RECURSIVE StripFrom_Every(_, _, _)
StripFrom_Every(prefixes, i, name) ==
    IF i > Len(prefixes) THEN name
    ELSE IF StartsWith(name, prefixes[i])
         THEN StripFrom_Every(prefixes, i + 1,
                              SubSeq(name, Len(prefixes[i]) + 1, Len(name)))
         ELSE StripFrom_Every(prefixes, i + 1, name)

\* the for loop of getTSTypeName from entry i of stripPrefixes on
RECURSIVE StripFrom(_, _, _)
StripFrom(prefixes, i, name) ==
    IF i > Len(prefixes) THEN name
    ELSE IF StartsWith(name, prefixes[i])
         THEN SubSeq(name, Len(prefixes[i]) + 1, Len(name))
         ELSE StripFrom(prefixes, i + 1, name)

getTSTypeName(prefixes, name) == toPascalCase(StripFrom(prefixes, 1, name))

(***************************************************************************)
(* The built-in namespaces and the objects of the graph.                   *)
(***************************************************************************)
XS == <<"http://www.w3.org/2001/XMLSchema">>
DS == <<"http://www.w3.org/2000/09/xmldsig#">>

NewSchema(namespace) ==
    [namespace |-> namespace, aliasedSchemas |-> <<>>,
     elements |-> <<>>, types |-> <<>>]

PrimitiveType(name, tsType, prefix) ==
    [kind |-> "primitive", name |-> name, tsType |-> tsType, prefix |-> prefix]

TypeReference(namespace, name) ==
    [kind |-> "ref", namespace |-> namespace, name |-> name]

NewElement(name, type) ==
    [kind |-> "element", name |-> name, type |-> type,
     minOccurs |-> Num(0), maxOccurs |-> Infinity]

\* addType on a list of definitions: a name that is registered again gets
\* a second entry
addType_Append(schema, type) ==
    [schema EXCEPT !.types = Append(@, [key |-> type.name, val |-> type])]

\* addElement on a list of definitions: a name that is registered again
\* gets a second entry
addElement_Append(schema, el) ==
    [schema EXCEPT !.elements = Append(@, [key |-> el.name, val |-> el])]

\* Schema.addType, Schema.addElement
addType(schema, type) ==
    [schema EXCEPT !.types = MapSet(@, type.name, type)]

addElement(schema, el) ==
    [schema EXCEPT !.elements = MapSet(@, el.name, el)]

XS_PRIMITIVE_TYPES ==
    << <<(<<"s", "t", "r", "i", "n", "g">>), "string">>,
       <<(<<"i", "n", "t">>), "number | string">>,
       <<(<<"s", "h", "o", "r", "t">>), "number | string">>,
       <<(<<"l", "o", "n", "g">>), "number | string">>,
       <<(<<"d", "e", "c", "i", "m", "a", "l">>), "number | string">>,
       <<(<<"b", "o", "o", "l", "e", "a", "n">>),
         "boolean | \"true\" | \"false\"">>,
       <<(<<"b", "a", "s", "e", "6", "4", "B", "i", "n", "a", "r", "y">>),
         "string">>,
       <<(<<"d", "a", "t", "e">>), "string">>,
       <<(<<"d", "a", "t", "e", "T", "i", "m", "e">>), "string">> >>

SignatureType == <<"S", "i", "g", "n", "a", "t", "u", "r", "e", "T", "y", "p", "e">>
Signature == <<"S", "i", "g", "n", "a", "t", "u", "r", "e">>

\* the xs Schema after the first k entries of XS_PRIMITIVE_TYPES were added
RECURSIVE XsSchema(_)
XsSchema(k) ==
    IF k = 0 THEN NewSchema(XS)
    ELSE addType(XsSchema(k - 1),
                 PrimitiveType(XS_PRIMITIVE_TYPES[k][1],
                               XS_PRIMITIVE_TYPES[k][2], <<"X", "s">>))

DsSchema ==
    addElement(addType(NewSchema(DS), PrimitiveType(SignatureType, "unknown", <<>>)),
               NewElement(Signature, TypeReference(DS, SignatureType)))

\* NewContext with the Schema of xmldsig inserted before that of XMLSchema
NewContext_DsFirst ==
    MapSet(MapSet(<<>>, DS, DsSchema), XS, XsSchema(Len(XS_PRIMITIVE_TYPES)))

\* Context.constructor: the two built-in Schemas, xs first
NewContext ==
    MapSet(MapSet(<<>>, XS, XsSchema(Len(XS_PRIMITIVE_TYPES))), DS, DsSchema)

\* ctx.schemas.get(namespace)?.types.get(name), ...?.elements.get(name)
HasType(ctx, namespace, name) ==
    MapHas(ctx, namespace) /\ MapHas(MapGet(ctx, namespace).types, name)

GetType(ctx, namespace, name) == MapGet(MapGet(ctx, namespace).types, name)

HasElement(ctx, namespace, name) ==
    MapHas(ctx, namespace) /\ MapHas(MapGet(ctx, namespace).elements, name)

GetElement(ctx, namespace, name) == MapGet(MapGet(ctx, namespace).elements, name)

(***************************************************************************)
(* Schema.resolveRef.                                                      *)
(***************************************************************************)
NullRef == [null |-> TRUE, namespace |-> Undefined, name |-> Undefined]

resolveRef(schema, qname) ==
    LET parts == Split(qname, ":")
        name == At(parts, 1)
        ns == At(parts, 2)
        namespace ==
            IF Truthy(ns)
            THEN IF MapHas(schema.aliasedSchemas, ns)
                 THEN MapGet(schema.aliasedSchemas, ns) ELSE Undefined
            ELSE schema.namespace
    IN  IF ~Truthy(name) \/ ~Truthy(namespace) \/ Len(parts) > 2
        THEN NullRef
        ELSE [null |-> FALSE, namespace |-> namespace, name |-> name]

(***************************************************************************)
(* fromXsd: the objects built from the nodes of a document.  A result is   *)
(* [err, val]: err is the message of the Error thrown, "" when none is.    *)
(***************************************************************************)
Ok(v) == [err |-> "", val |-> v]
Throw(e) == [err |-> e, val |-> <<>>]

\* the first Error among the results rs, in order, or "" when none threw
FirstErr(rs) ==
    IF \A i \in 1..Len(rs) : rs[i].err = "" THEN ""
    ELSE rs[CHOOSE i \in 1..Len(rs) :
                rs[i].err # "" /\ \A j \in 1..(i - 1) : rs[j].err = ""].err

Vals(rs) == [i \in 1..Len(rs) |-> rs[i].val]

\* TypeReference_fromXsd that does not check what resolveRef returns: the
\* reference of a malformed name points nowhere
TypeReference_fromXsd_Unchecked(schema, qname) ==
    Ok(TypeReference(resolveRef(schema, qname).namespace,
                     At(Split(qname, ":"), 1)))

TypeReference_fromXsd(schema, qname) ==
    LET ref == resolveRef(schema, qname)
    IN  IF ref.null THEN Throw("Invalid type reference")
        ELSE Ok(TypeReference(ref.namespace, ref.name))

Attribute_fromXsd(schema, n) ==
    LET type == IF Truthy(n.type) THEN TypeReference_fromXsd(schema, n.type)
                ELSE Ok([kind |-> "null"])
    IN  IF type.err # "" THEN type
        ELSE Ok([kind |-> "attribute", name |-> n.name, type |-> type.val,
                 required |-> (n.use = <<"required">>),
                 fixed |-> IF Truthy(n.fixed) THEN n.fixed ELSE Undefined])

\* the ComplexType of lines 360 to 382, given what the fromXsd calls on
\* the children left
NewComplexType(name, sequence, choice, attributes) ==
    IF FirstErr(sequence \o choice \o attributes) # ""
    THEN Throw(FirstErr(sequence \o choice \o attributes))
    ELSE Ok([kind |-> "complex", name |-> name,
             variants |->
                (IF Len(sequence) > 0 THEN <<Vals(sequence)>> ELSE <<>>)
                \o [i \in 1..Len(choice) |-> <<choice[i].val>>],
             attributes |-> Vals(attributes)])

\* name and type of an Element that has a name: lines 449 to 453
Named(name, type) ==
    IF type.err # "" THEN type ELSE Ok([name |-> name, type |-> type.val])

\* Referred without the check of line 444: an element that is not found
\* is left to be looked up when it is rendered
Referred_Deferred(ctx, ref) ==
    IF ref.null THEN Throw("Invalid element reference")
    ELSE Ok([name |-> ref.name,
             type |-> TypeReference(ref.namespace, ref.name)])

\* Referred that keeps a reference to the target instead of its type
Referred_ByReference(ctx, ref) ==
    IF ref.null THEN Throw("Invalid element reference")
    ELSE IF ~HasElement(ctx, ref.namespace, ref.name)
    THEN Throw("Element not found")
    ELSE Ok([name |-> GetElement(ctx, ref.namespace, ref.name).name,
             type |-> TypeReference(ref.namespace, ref.name)])

\* name and type of an Element that has a ref: lines 440 to 447
Referred(ctx, ref) ==
    IF ref.null THEN Throw("Invalid element reference")
    ELSE IF ~HasElement(ctx, ref.namespace, ref.name)
    THEN Throw("Element not found")
    ELSE Ok([name |-> GetElement(ctx, ref.namespace, ref.name).name,
             type |-> GetElement(ctx, ref.namespace, ref.name).type])

\* ElementMinOccurs with the default of XML Schema, 1, for an absent attribute
ElementMinOccurs_DefaultOne(n) ==
    IF Truthy(n.minOccurs) THEN Number(n.minOccurs) ELSE Num(1)

\* minOccurs and maxOccurs of the Element: lines 456 to 462
ElementMinOccurs(n) ==
    IF Truthy(n.minOccurs) THEN Number(n.minOccurs) ELSE Num(0)

ElementMaxOccurs(n) ==
    IF Truthy(n.maxOccurs) /\ n.maxOccurs # <<"unbounded">>
    THEN Number(n.maxOccurs) ELSE Infinity

\* the Element of lines 456 to 466, given its name and type
Occurring(n, nt) ==
    IF nt.err # "" THEN nt
    ELSE Ok([NewElement(nt.val.name, nt.val.type) EXCEPT
                !.minOccurs = ElementMinOccurs(n),
                !.maxOccurs = ElementMaxOccurs(n)])

RECURSIVE Element_fromXsd(_, _, _)
RECURSIVE ComplexType_fromXsd(_, _, _)

ComplexType_fromXsd(ctx, schema, n) ==
    NewComplexType(
        n.name,
        [i \in 1..Len(n.sequence) |-> Element_fromXsd(ctx, schema, n.sequence[i])],
        [i \in 1..Len(n.choice) |-> Element_fromXsd(ctx, schema, n.choice[i])],
        [i \in 1..Len(n.attribute) |-> Attribute_fromXsd(schema, n.attribute[i])])

Element_fromXsd(ctx, schema, n) ==
    Occurring(n,
        IF n.ref # Undefined THEN Referred(ctx, resolveRef(schema, n.ref))
        ELSE IF n.type # Undefined
        THEN Named(n.name, TypeReference_fromXsd(schema, n.type))
        ELSE Named(n.name,
                   ComplexType_fromXsd(ctx, schema,
                       [n.complexType EXCEPT !.name = n.name])))

\* a facet that the restriction does not set
NoFacet == [t |-> "undefined", v |-> 0]

\* the facet of the restriction as a number, when the node has it
Facet(value) == IF value # Undefined THEN Number(value) ELSE NoFacet

SimpleType_fromXsd(schema, n) ==
    LET type == TypeReference_fromXsd(schema, n.base)
    IN  IF type.err # "" THEN type
        ELSE Ok([kind |-> "simple", name |-> n.name, type |-> type.val,
                 minInclusive |-> Facet(n.minInclusive),
                 totalDigits |-> Facet(n.totalDigits),
                 fractionDigits |-> Facet(n.fractionDigits),
                 minLength |-> Facet(n.minLength),
                 maxLength |-> Facet(n.maxLength),
                 pattern |-> n.pattern,
                 enumeration |-> n.enumeration])

(***************************************************************************)
(* Emission.  A type expression is a tree: an identifier, "unknown",       *)
(* "undefined", Many<...>, a union of literals, or the intersection that   *)
(* a ComplexType renders; a field is [name, optional, type, attribute].    *)
(***************************************************************************)
AttributePrefix == "@_"

TsUnknown == [k |-> "unknown"]
TsUndefined == [k |-> "undefined"]
TsId(id) == [k |-> "id", id |-> id]
TsText(text) == [k |-> "text", text |-> text]
TsMany(e) == [k |-> "Many", of |-> e]
TsUnion(lits) == [k |-> "union", lits |-> lits]

toTSTypeName(prefixes, type) ==
    IF type.kind = "primitive"
    THEN type.prefix \o getTSTypeName(prefixes, type.name)
    ELSE getTSTypeName(prefixes, type.name)

\* x || "unknown" of an identifier x
OrUnknown(id) == IF id # <<>> THEN TsId(id) ELSE TsUnknown

\* TypeReference_toTSTypeExpr that names the type without looking it up
TypeReference_toTSTypeExpr_Unchecked(ctx, prefixes, ref) ==
    OrUnknown(getTSTypeName(prefixes, ref.name))

TypeReference_toTSTypeExpr(ctx, prefixes, ref) ==
    IF HasType(ctx, ref.namespace, ref.name)
    THEN OrUnknown(toTSTypeName(prefixes, GetType(ctx, ref.namespace, ref.name)))
    ELSE TsUnknown

\* value.match(/^\d+(\.\d+)?$/)
IsDigits(s) == Len(s) > 0 /\ \A i \in 1..Len(s) : s[i] \in Digits

IsNumeric(value) ==
    \/ IsDigits(value)
    \/ \E i \in 1..Len(value) :
          /\ value[i] = "."
          /\ IsDigits(SubSeq(value, 1, i - 1))
          /\ IsDigits(SubSeq(value, i + 1, Len(value)))

\* JSON.stringify(value), then " | value" for a numeric value
Literals(value) ==
    <<[quoted |-> TRUE, text |-> value]>>
    \o (IF IsNumeric(value) THEN <<[quoted |-> FALSE, text |-> value]>> ELSE <<>>)

RECURSIVE EnumerationUnion(_)
EnumerationUnion(enumeration) ==
    IF enumeration = <<>> THEN <<>>
    ELSE Literals(Head(enumeration)) \o EnumerationUnion(Tail(enumeration))

Attribute_toTSField(ctx, prefixes, a) ==
    [name |-> a.name, attribute |-> TRUE, optional |-> ~a.required,
     type |-> IF Truthy(a.fixed) THEN TsUnion(Literals(a.fixed))
              ELSE IF a.type.kind = "null" THEN TsText("string | number")
              ELSE TypeReference_toTSTypeExpr(ctx, prefixes, a.type)]

\* the `undefined` field that an arm gets for an element of another variant
UndefinedField(otherElement) ==
    [name |-> otherElement.name, attribute |-> FALSE, optional |-> TRUE,
     type |-> TsUndefined]

\* OtherVariants without the skip of line 398: the variant itself too
OtherVariants_All(variants, i) == [j \in 1..Len(variants) |-> j]

\* OtherVariants with `otherVariant === variant` as a comparison of contents
OtherVariants_ByContent(variants, i) ==
    SelectSeq([j \in 1..Len(variants) |-> j],
              LAMBDA j : variants[j] # variants[i])

\* the variants that the inner loop of toTSTypeExpr does not skip for
\* variant i: every variant but the object variants[i] itself
OtherVariants(variants, i) ==
    SelectSeq([j \in 1..Len(variants) |-> j], LAMBDA j : j # i)

RECURSIVE Flatten(_)
Flatten(ss) == IF ss = <<>> THEN <<>> ELSE Head(ss) \o Flatten(Tail(ss))

\* Repeatable with `maxOccurs >= 1`
Repeatable_FromOne(el, tsType) ==
    IF el.maxOccurs.t = "inf" \/ (el.maxOccurs.t = "num" /\ el.maxOccurs.v >= 1)
    THEN TsMany(tsType) ELSE tsType

\* a field is wrapped in Many<...> when maxOccurs > 1
Repeatable(el, tsType) ==
    IF GreaterThanOne(el.maxOccurs) THEN TsMany(tsType) ELSE tsType

\* a field is optional when minOccurs === 0
ElementOptional(el) == IsZero(el.minOccurs)

RECURSIVE ComplexType_toTSTypeExpr(_, _, _)
RECURSIVE Element_toTSField(_, _, _)

ComplexType_toTSTypeExpr(ctx, prefixes, ct) ==
    LET Arm(i) ==
            [f \in 1..Len(ct.variants[i]) |->
                Element_toTSField(ctx, prefixes, ct.variants[i][f])]
            \o Flatten([o \in 1..Len(OtherVariants(ct.variants, i)) |->
                 LET other == ct.variants[OtherVariants(ct.variants, i)[o]]
                 IN  [f \in 1..Len(other) |-> UndefinedField(other[f])]])
    IN  [k |-> "XmlElement",
         attributes |-> [i \in 1..Len(ct.attributes) |->
                            Attribute_toTSField(ctx, prefixes, ct.attributes[i])],
         arms |-> [i \in 1..Len(ct.variants) |-> Arm(i)],
         union |-> Len(ct.variants) > 1]

Element_toTSField(ctx, prefixes, el) ==
    [name |-> el.name, attribute |-> FALSE, optional |-> ElementOptional(el),
     type |-> Repeatable(el,
                IF el.type.kind = "ref"
                THEN TypeReference_toTSTypeExpr(ctx, prefixes, el.type)
                ELSE ComplexType_toTSTypeExpr(ctx, prefixes, el.type))]

\* FacetLines with the pattern line appended before the length lines
FacetLines_PatternFirst(st) ==
    (IF st.minInclusive # NoFacet
     THEN <<[label |-> "Min", value |-> st.minInclusive]>> ELSE <<>>)
    \o (IF st.totalDigits # NoFacet
        THEN <<[label |-> "Total digits", value |-> st.totalDigits]>> ELSE <<>>)
    \o (IF st.fractionDigits # NoFacet
        THEN <<[label |-> "Fraction digits", value |-> st.fractionDigits]>> ELSE <<>>)
    \o (IF st.pattern # Undefined
        THEN <<[label |-> "Pattern", value |-> st.pattern]>> ELSE <<>>)
    \o (IF st.minLength # NoFacet
        THEN <<[label |-> "Min length", value |-> st.minLength]>> ELSE <<>>)
    \o (IF st.maxLength # NoFacet
        THEN <<[label |-> "Max length", value |-> st.maxLength]>> ELSE <<>>)

\* the facet lines of the doc block, in the order the code appends them
FacetLines(st) ==
    (IF st.minInclusive # NoFacet
     THEN <<[label |-> "Min", value |-> st.minInclusive]>> ELSE <<>>)
    \o (IF st.totalDigits # NoFacet
        THEN <<[label |-> "Total digits", value |-> st.totalDigits]>> ELSE <<>>)
    \o (IF st.fractionDigits # NoFacet
        THEN <<[label |-> "Fraction digits", value |-> st.fractionDigits]>> ELSE <<>>)
    \o (IF st.minLength # NoFacet
        THEN <<[label |-> "Min length", value |-> st.minLength]>> ELSE <<>>)
    \o (IF st.maxLength # NoFacet
        THEN <<[label |-> "Max length", value |-> st.maxLength]>> ELSE <<>>)
    \o (IF st.pattern # Undefined
        THEN <<[label |-> "Pattern", value |-> st.pattern]>> ELSE <<>>)

\* SimpleTypeExpr without the reset `tsType = ""`: the base stays in front
SimpleTypeExpr_KeepBase(ctx, prefixes, st) ==
    IF Len(st.enumeration) > 0
    THEN TsUnion(<<[quoted |-> FALSE, text |-> st.type.name]>>
                 \o EnumerationUnion(st.enumeration))
    ELSE TypeReference_toTSTypeExpr(ctx, prefixes, st.type)

\* the type expression of a SimpleType: lines 265 to 274
SimpleTypeExpr(ctx, prefixes, st) ==
    IF Len(st.enumeration) > 0 THEN TsUnion(EnumerationUnion(st.enumeration))
    ELSE TypeReference_toTSTypeExpr(ctx, prefixes, st.type)

Declaration(name, docs, expr) == [name |-> name, docs |-> docs, expr |-> expr]

SimpleType_toTSType(ctx, prefixes, st) ==
    Declaration(toTSTypeName(prefixes, st), FacetLines(st),
                SimpleTypeExpr(ctx, prefixes, st))

PrimitiveType_toTSType(prefixes, pt) ==
    Declaration(toTSTypeName(prefixes, pt), <<>>, TsText(pt.tsType))

ComplexType_toTSType(ctx, prefixes, ct) ==
    Declaration(toTSTypeName(prefixes, ct), <<>>,
                ComplexType_toTSTypeExpr(ctx, prefixes, ct))

\* Element.toTSType: Prolog & { the field }
Element_toTSType(ctx, prefixes, el) ==
    Declaration(getTSTypeName(prefixes, el.name) \o <<"Element">>, <<>>,
                [k |-> "Prolog", field |-> Element_toTSField(ctx, prefixes, el)])

toTSType(ctx, prefixes, type) ==
    CASE type.kind = "primitive" -> PrimitiveType_toTSType(prefixes, type)
      [] type.kind = "simple" -> SimpleType_toTSType(ctx, prefixes, type)
      [] type.kind = "complex" -> ComplexType_toTSType(ctx, prefixes, type)

\* Schema_toTS with the loop of the elements before the loop of the types
Schema_toTS_ElementsFirst(ctx, prefixes, schema) ==
    [i \in 1..Len(schema.elements) |->
            Element_toTSType(ctx, prefixes, schema.elements[i].val)]
    \o [i \in 1..Len(schema.types) |-> toTSType(ctx, prefixes, schema.types[i].val)]

\* Schema.toTS: the declarations of the types, then those of the elements
Schema_toTS(ctx, prefixes, schema) ==
    [i \in 1..Len(schema.types) |-> toTSType(ctx, prefixes, schema.types[i].val)]
    \o [i \in 1..Len(schema.elements) |->
            Element_toTSType(ctx, prefixes, schema.elements[i].val)]

\* Context_toTS with its text kept between calls: a call appends to what
\* the call before returned
Context_toTS_Accumulating(ctx, prefixes) ==
    [header |-> AttributePrefix,
     blocks |-> out.blocks
                \o SelectSeq([i \in 1..Len(ctx) |->
                                 Schema_toTS(ctx, prefixes, ctx[i].val)],
                             LAMBDA b : b # <<>>)]

\* Context.toTS: the header, then the block of every Schema that has one
Context_toTS(ctx, prefixes) ==
    [header |-> AttributePrefix,
     blocks |-> SelectSeq([i \in 1..Len(ctx) |->
                              Schema_toTS(ctx, prefixes, ctx[i].val)],
                          LAMBDA b : b # <<>>)]

(***************************************************************************)
(* Nodes: what parseXml hands to fromXsd.  An absent attribute or child    *)
(* is Undefined; a list of children is a sequence.                         *)
(***************************************************************************)
NoNested == [name |-> Undefined, sequence |-> <<>>, choice |-> <<>>,
             attribute |-> <<>>]

\* <element name= type= minOccurs= maxOccurs=/>
XsTyped(name, type, minOccurs, maxOccurs) ==
    [ref |-> Undefined, name |-> name, type |-> type, complexType |-> NoNested,
     minOccurs |-> minOccurs, maxOccurs |-> maxOccurs]

\* <element ref= minOccurs= maxOccurs=/>
XsRef(ref, minOccurs, maxOccurs) ==
    [ref |-> ref, name |-> Undefined, type |-> Undefined,
     complexType |-> NoNested, minOccurs |-> minOccurs, maxOccurs |-> maxOccurs]

\* <element name=><complexType>...</complexType></element>
XsInline(name, complexType, minOccurs, maxOccurs) ==
    [ref |-> Undefined, name |-> name, type |-> Undefined,
     complexType |-> complexType, minOccurs |-> minOccurs,
     maxOccurs |-> maxOccurs]

XsAttribute(name, type, use, fixed) ==
    [name |-> name, type |-> type, use |-> use, fixed |-> fixed]

XsComplexType(name, sequence, choice, attribute) ==
    [name |-> name, sequence |-> sequence, choice |-> choice,
     attribute |-> attribute]

XsSimpleType(name, base, enumeration) ==
    [name |-> name, base |-> base, enumeration |-> enumeration,
     facets |-> <<>>,
     minInclusive |-> Undefined, totalDigits |-> Undefined,
     fractionDigits |-> Undefined, minLength |-> Undefined,
     maxLength |-> Undefined, pattern |-> Undefined]

\* <simpleType name=><restriction base=> with the facet children given, in
\* document order: parseXml makes one property of each child, by its tag
XsRestricted(name, base, children) ==
    LET value(tag) ==
            IF \E i \in 1..Len(children) : children[i].tag = tag
            THEN children[CHOOSE i \in 1..Len(children) :
                              children[i].tag = tag].value
            ELSE Undefined
    IN  [name |-> name, base |-> base, enumeration |-> <<>>,
         facets |-> children,
         minInclusive |-> value("minInclusive"),
         totalDigits |-> value("totalDigits"),
         fractionDigits |-> value("fractionDigits"),
         minLength |-> value("minLength"),
         maxLength |-> value("maxLength"),
         pattern |-> value("pattern")]

\* all sequences of at most n members of S
SeqsUpTo(S, n) == UNION {[1..k -> S] : k \in 0..n}

(***************************************************************************)
(* The objects one at a time: a node drawn from bounded sets is built by   *)
(* its fromXsd against a Context that holds one user Schema, and the       *)
(* object is rendered.                                                     *)
(***************************************************************************)
NsU == <<"urn:u">>

NameA == <<"a">>
NameB == <<"b">>
NameC == <<"c">>
NameE == <<"e">>
NameT1 == <<"t", "1">>
NameT2 == <<"t", "2">>

\* qualified names: plain, through the declared alias p, through the
\* undeclared alias q, with two separators
QT1 == <<"t", "1">>
QT2 == <<"t", "2">>
QPT1 == <<"p", ":", "t", "1">>
QQT1 == <<"q", ":", "t", "1">>
QPQT1 == <<"p", ":", "q", ":", "t", "1">>

UnitSchema ==
    addElement(
        addType([NewSchema(NsU) EXCEPT
                    !.aliasedSchemas = MapSet(<<>>, <<"p">>, NsU)],
                [kind |-> "simple", name |-> NameT1,
                 type |-> TypeReference(XS, <<"i", "n", "t">>),
                 minInclusive |-> NoFacet, totalDigits |-> NoFacet,
                 fractionDigits |-> NoFacet, minLength |-> NoFacet,
                 maxLength |-> NoFacet, pattern |-> Undefined,
                 enumeration |-> <<>>]),
        NewElement(NameE, TypeReference(NsU, NameT1)))

UnitContext == MapSet(NewContext, NsU, UnitSchema)

OccursValues ==
    {Undefined, <<>>, <<"0">>, <<"1">>, <<"2">>, <<"1", "0">>, <<"x">>}

UnitElementNodes ==
    {XsTyped(n, t, lo, hi) :
        n \in {NameA, NameB}, t \in {QT1, QT2, QPT1, QQT1, QPQT1},
        lo \in OccursValues, hi \in OccursValues \cup {<<"unbounded">>}}
    \cup {XsRef(r, lo, hi) :
        r \in {NameE, NameA, <<"q", ":", "e">>},
        lo \in {Undefined, <<"1">>}, hi \in {Undefined, <<"1">>}}

\* the elements that the content of a complexType under test is made of:
\* two of them are named a
ContentElements ==
    {XsTyped(NameA, QT1, <<"1">>, <<"1">>),
     XsTyped(NameA, QT2, Undefined, <<"2">>),
     XsTyped(NameB, QT2, Undefined, Undefined),
     XsInline(NameC,
              XsComplexType(Undefined, <<>>,
                  <<XsTyped(NameA, QT1, <<"1">>, <<"1">>),
                    XsTyped(NameB, QT1, <<"1">>, <<"1">>)>>, <<>>),
              <<"0">>, <<"unbounded">>)}

UnitAttributeNodes ==
    {XsAttribute(NameA, t, u, f) :
        t \in {Undefined, QT1, QT2, QQT1},
        u \in {Undefined, <<"required">>, <<"optional">>},
        f \in {Undefined, <<"1">>, <<"a">>}}

UnitComplexTypeNodes ==
    {XsComplexType(NameT2, sq, ch, at) :
        sq \in SeqsUpTo(ContentElements, MaxSequence),
        ch \in SeqsUpTo(ContentElements, MaxChoice),
        at \in {<<>>, <<XsAttribute(NameA, QT1, <<"required">>, Undefined)>>}}

EnumerationValues ==
    {<<"1">>, <<"2">>, <<"1", ".", "5">>, <<"1", ".">>, <<".", "5">>,
     <<"-", "1">>, <<"1", ".", "2", ".", "3">>, <<"a">>, <<>>}

UnitSimpleTypeNodes ==
    {XsSimpleType(NameT2, b, en) :
        b \in {QT1, QQT1}, en \in SeqsUpTo(EnumerationValues, MaxEnumeration)}

\* the facet children of a restriction, and the restrictions that have up
\* to MaxFacets of them, each at most once, in any order
FacetChildren ==
    {[tag |-> "minInclusive", value |-> <<"0">>],
     [tag |-> "totalDigits", value |-> <<"1", "0">>],
     [tag |-> "fractionDigits", value |-> <<"2">>],
     [tag |-> "minLength", value |-> <<"1">>],
     [tag |-> "maxLength", value |-> <<"0">>],
     [tag |-> "pattern", value |-> <<"a", "/", "b">>]}

UnitFacetNodes ==
    {XsRestricted(NameT2, QT1, ch) :
        ch \in {c \in SeqsUpTo(FacetChildren, MaxFacets) :
                  \A i, j \in 1..Len(c) : c[i].tag = c[j].tag => i = j}}

\* names and --strip-prefix values for getTSTypeName
UnitNames ==
    {<<"t", "t", "a">>, <<"t", "n", "t", "_", "a">>, <<"a", "_", "b", "C">>,
     <<"t">>}

UnitPrefixes ==
    {<<"t">>, <<"t", "t">>, <<"t", "n">>, <<"n">>, <<"a", "_">>, <<>>}

\* the Schemas that resolveRef is called on: one with a target namespace
\* and the alias p, and the one that Schema.fromXsd makes (lines 109 to 114)
\* for a document that has no targetNamespace attribute
UnitRefSchemas ==
    {[UnitSchema EXCEPT !.aliasedSchemas = MapSet(@, <<"x">>, XS)],
     [UnitSchema EXCEPT !.namespace = Undefined]}

\* qualified names: plain, with a declared and with an undeclared alias,
\* with two separators, empty, without local name, without alias text
UnitQNames ==
    {QT1, QPT1, <<"x", ":", "i", "n", "t">>, QQT1, QPQT1, <<>>,
     <<"p", ":">>, <<":", "t", "1">>, <<"p", ":", ":", "t", "1">>}

NoObj == [kind |-> "none"]
NoTs == [k |-> "none"]
NoOut == [header |-> "", blocks |-> <<>>]

\* what a fromXsd call leaves: the object, or the Error it threw
Built(r) == IF r.err # "" THEN [kind |-> "error", err |-> r.err] ELSE r.val

UnitInit ==
    /\ schemas = UnitContext
    /\ roots = <<>> /\ next = 1 /\ stack = <<>> /\ phase = "unit"
    /\ error = "" /\ out = NoOut /\ log = <<>>
    /\ node \in
          {[tag |-> "element", n |-> x] : x \in UnitElementNodes}
          \cup {[tag |-> "attribute", n |-> x] : x \in UnitAttributeNodes}
          \cup {[tag |-> "complexType", n |-> x] : x \in UnitComplexTypeNodes}
          \cup {[tag |-> "simpleType", n |-> x] : x \in UnitSimpleTypeNodes}
          \cup {[tag |-> "simpleType", n |-> x] : x \in UnitFacetNodes}
          \cup {[tag |-> "name", n |-> [name |-> x]] : x \in UnitNames}
          \cup {[tag |-> "ref", n |-> [schema |-> x, qname |-> q]] :
                    x \in UnitRefSchemas, q \in UnitQNames}
    /\ stripPrefixes \in
          IF node.tag = "name" THEN SeqsUpTo(UnitPrefixes, MaxPrefixes)
          ELSE {<<>>}
    /\ obj = NoObj
    /\ ts = NoTs

CallElementFromXsd ==
    /\ node.tag = "element" /\ obj = NoObj
    /\ obj' = Built(Element_fromXsd(schemas, MapGet(schemas, NsU), node.n))
    /\ UNCHANGED <<loaderVars, stripPrefixes, node, ts>>

CallElementToTSField ==
    /\ obj.kind = "element" /\ ts = NoTs
    /\ ts' = Element_toTSField(schemas, stripPrefixes, obj)
    /\ UNCHANGED <<loaderVars, stripPrefixes, node, obj>>

CallAttributeFromXsd ==
    /\ node.tag = "attribute" /\ obj = NoObj
    /\ obj' = Built(Attribute_fromXsd(MapGet(schemas, NsU), node.n))
    /\ UNCHANGED <<loaderVars, stripPrefixes, node, ts>>

CallAttributeToTSField ==
    /\ obj.kind = "attribute" /\ ts = NoTs
    /\ ts' = Attribute_toTSField(schemas, stripPrefixes, obj)
    /\ UNCHANGED <<loaderVars, stripPrefixes, node, obj>>

CallComplexTypeFromXsd ==
    /\ node.tag = "complexType" /\ obj = NoObj
    /\ obj' = Built(ComplexType_fromXsd(schemas, MapGet(schemas, NsU), node.n))
    /\ UNCHANGED <<loaderVars, stripPrefixes, node, ts>>

CallComplexTypeToTSTypeExpr ==
    /\ obj.kind = "complex" /\ ts = NoTs
    /\ ts' = ComplexType_toTSTypeExpr(schemas, stripPrefixes, obj)
    /\ UNCHANGED <<loaderVars, stripPrefixes, node, obj>>

CallSimpleTypeFromXsd ==
    /\ node.tag = "simpleType" /\ obj = NoObj
    /\ obj' = Built(SimpleType_fromXsd(MapGet(schemas, NsU), node.n))
    /\ UNCHANGED <<loaderVars, stripPrefixes, node, ts>>

CallSimpleTypeToTSType ==
    /\ obj.kind = "simple" /\ ts = NoTs
    /\ ts' = SimpleType_toTSType(schemas, stripPrefixes, obj)
    /\ UNCHANGED <<loaderVars, stripPrefixes, node, obj>>

CallGetTSTypeName ==
    /\ node.tag = "name" /\ ts = NoTs
    /\ ts' = [k |-> "name", text |-> getTSTypeName(stripPrefixes, node.n.name)]
    /\ UNCHANGED <<loaderVars, stripPrefixes, node, obj>>

CallResolveRef ==
    /\ node.tag = "ref" /\ ts = NoTs
    /\ ts' = [k |-> "ref", ref |-> resolveRef(node.n.schema, node.n.qname)]
    /\ UNCHANGED <<loaderVars, stripPrefixes, node, obj>>

UnitNext ==
    \/ CallElementFromXsd
    \/ CallElementToTSField
    \/ CallAttributeFromXsd
    \/ CallAttributeToTSField
    \/ CallComplexTypeFromXsd
    \/ CallComplexTypeToTSTypeExpr
    \/ CallSimpleTypeFromXsd
    \/ CallSimpleTypeToTSType
    \/ CallGetTSTypeName
    \/ CallResolveRef

SpecUnit == UnitInit /\ [][UnitNext]_vars

(***************************************************************************)
(* The documents that the loader is run on, by location.  A document is    *)
(* the XsSchema node that parseXml returns for it.                         *)
(***************************************************************************)
NsA == <<"urn:a">>
NsB == <<"urn:b">>
NsM == <<"urn:m">>
NsR == <<"urn:r">>
NsS == <<"urn:s">>
NsD == <<"urn:d">>
NsX == <<"urn:x">>

NameT3 == <<"t", "3">>
NameT4 == <<"t", "4">>

XsSchemaNode(targetNamespace, xmlns, import, element, simpleType, complexType) ==
    [targetNamespace |-> targetNamespace, xmlns |-> xmlns, import |-> import,
     element |-> element, simpleType |-> simpleType,
     complexType |-> complexType]

XsImport(namespace, schemaLocation) ==
    [namespace |-> namespace, schemaLocation |-> schemaLocation]

Xmlns(alias, namespace) == [alias |-> alias, namespace |-> namespace]

\* A.xsd and B.xsd import each other; A.xsd refers to an element and a type
\* of B.xsd, B.xsd to a type of A.xsd
DocA ==
    XsSchemaNode(NsA,
        <<Xmlns(<<"b">>, NsB), Xmlns(<<"x", "s">>, XS)>>,
        <<XsImport(NsB, "B.xsd"), XsImport(XS, "xs.xsd")>>,
        <<XsTyped(NameA, <<"b", ":", "t", "2">>, <<"1">>, <<"1">>)>>,
        <<XsSimpleType(NameT1, <<"x", "s", ":", "i", "n", "t">>, <<>>)>>,
        <<XsComplexType(NameT3,
              <<XsRef(<<"b", ":", "e">>, Undefined, <<"1">>)>>,
              <<XsTyped(NameA, NameT1, <<"1">>, <<"1">>),
                XsTyped(NameB, NameT3, <<"1">>, Undefined)>>,
              <<XsAttribute(NameA, NameT1, <<"required">>, Undefined)>>)>>)

DocB ==
    XsSchemaNode(NsB,
        <<Xmlns(<<"a">>, NsA)>>,
        <<XsImport(NsA, "A.xsd")>>,
        <<XsTyped(NameE, <<"a", ":", "t", "1">>, Undefined, Undefined)>>,
        <<XsSimpleType(NameT2, <<"a", ":", "t", "1">>, << <<"1">>, <<"a">> >>)>>,
        <<>>)

\* A2.xsd: a second document of the namespace of A.xsd; it declares t1 anew
DocA2 ==
    XsSchemaNode(NsA,
        <<Xmlns(<<"x">>, NsX)>>,
        <<>>,
        <<XsTyped(NameB, NameT4, <<"0">>, <<"2">>)>>,
        <<XsSimpleType(NameT4, NameT1, <<>>),
          XsSimpleType(NameT1, NameT4, << <<"2">> >>)>>,
        <<>>)

\* U.xsd: fields whose type is registered nowhere: a name that no document
\* declares, and a name in a namespace that no document has
DocU ==
    XsSchemaNode(NsU,
        <<Xmlns(<<"x">>, NsX), Xmlns(<<"a">>, NsA)>>,
        <<>>,
        <<XsTyped(NameA, NameT2, <<"1">>, <<"1">>),
          XsTyped(NameB, <<"x", ":", "t", "1">>, Undefined, Undefined),
          XsTyped(NameC, <<"a", ":", "t", "1">>, <<"1">>, <<"1">>)>>,
        <<XsSimpleType(NameT1, NameT2, <<>>)>>,
        <<XsComplexType(NameT3, <<XsTyped(NameA, NameT4, <<"1">>, <<"1">>)>>,
              <<>>, <<XsAttribute(NameB, NameT4, Undefined, Undefined)>>)>>)

\* M.xsd: an element whose type= names an alias that is not declared;
\* M2.xsd: an attribute whose type= has two separators
DocM ==
    XsSchemaNode(NsM, <<>>, <<>>,
        <<XsTyped(NameB, NameT1, Undefined, Undefined),
          XsTyped(NameA, <<"q", ":", "t", "1">>, Undefined, Undefined)>>,
        <<XsSimpleType(NameT1, NameT1, <<>>)>>,
        <<>>)

DocM2 ==
    XsSchemaNode(NsM, <<Xmlns(<<"m">>, NsM)>>, <<>>,
        <<>>,
        <<XsSimpleType(NameT2, NameT1, <<>>)>>,
        <<XsComplexType(NameT3, <<XsTyped(NameA, NameT1, <<"1">>, <<"1">>)>>,
              <<>>,
              <<XsAttribute(NameB, <<"m", ":", "m", ":", "t", "1">>,
                            Undefined, Undefined)>>)>>)

\* R.xsd: a ref= to an element that R.xsd declares further down, after a
\* ref= that resolves; R2.xsd: a ref= through an alias that is not declared; I.xsd: an
\* import of a document that cannot be read
DocR ==
    XsSchemaNode(NsR, <<Xmlns(<<"d", "s">>, DS)>>, <<>>,
        <<XsTyped(NameA, NameT1, Undefined, Undefined),
          XsRef(<<"d", "s", ":", "S", "i", "g", "n", "a", "t", "u", "r", "e">>,
                <<"1">>, <<"1">>),
          XsRef(NameA, <<"1">>, Undefined),
          XsRef(NameE, Undefined, Undefined),
          XsTyped(NameE, NameT1, Undefined, Undefined)>>,
        <<>>, <<>>)

DocR2 ==
    XsSchemaNode(NsR, <<>>, <<>>,
        <<XsTyped(NameE, NameT1, Undefined, Undefined),
          XsRef(<<"q", ":", "e">>, Undefined, Undefined)>>,
        <<>>, <<>>)

DocI ==
    XsSchemaNode(NsR, <<>>, <<XsImport(NsX, "N.xsd")>>,
        <<XsTyped(NameA, NameT1, Undefined, Undefined)>>,
        <<>>, <<>>)

\* D.xsd and A3.xsd have no ref=.  D.xsd imports the namespace of A.xsd
\* from A2.xsd; its element a has a type that only A2.xsd declares, its
\* element b a type that D.xsd declares further down, and its complex
\* types t3 and t4 refer to each other.  A3.xsd is a third document of the
\* namespace of A.xsd.
DocD ==
    XsSchemaNode(NsD,
        <<Xmlns(<<"a">>, NsA)>>,
        <<XsImport(NsA, "A2.xsd")>>,
        <<XsTyped(NameA, <<"a", ":", "t", "4">>, <<"1">>, <<"1">>),
          XsTyped(NameB, NameT3, <<"1">>, <<"1">>)>>,
        <<>>,
        <<XsComplexType(NameT3, <<XsTyped(NameC, NameT4, <<"1">>, <<"1">>)>>,
              <<>>, <<>>),
          XsComplexType(NameT4, <<XsTyped(NameC, NameT3, <<"0">>, <<"1">>)>>,
              <<>>, <<XsAttribute(NameA, <<"a", ":", "t", "3">>,
                                  Undefined, Undefined)>>)>>)

DocA3 ==
    XsSchemaNode(NsA, <<>>, <<>>,
        <<>>,
        <<XsSimpleType(NameT3, NameT1, <<>>)>>,
        <<>>)

\* B2.xsd: a second document of the namespace of B.xsd; it declares the
\* element e anew, with another type and other occurrences
DocB2 ==
    XsSchemaNode(NsB,
        <<Xmlns(<<"a">>, NsA)>>,
        <<>>,
        <<XsTyped(NameE, <<"a", ":", "t", "3">>, <<"0">>, <<"2">>)>>,
        <<>>, <<>>)

\* E.xsd declares nothing
DocE == XsSchemaNode(NsX, <<>>, <<>>, <<>>, <<>>, <<>>)

\* S.xsd imports itself under a namespace that is not its target namespace
DocS ==
    XsSchemaNode(NsS, <<>>, <<XsImport(NsX, "S.xsd")>>,
        <<XsTyped(NameA, NameT1, Undefined, Undefined)>>, <<>>, <<>>)

Locations ==
    {"A.xsd", "B.xsd", "A2.xsd", "U.xsd", "M.xsd", "M2.xsd", "R.xsd", "R2.xsd",
     "I.xsd", "E.xsd", "D.xsd", "A3.xsd", "S.xsd", "B2.xsd"}

Docs ==
    [l \in Locations |->
        CASE l = "A.xsd" -> DocA [] l = "B.xsd" -> DocB [] l = "A2.xsd" -> DocA2
          [] l = "U.xsd" -> DocU [] l = "M.xsd" -> DocM [] l = "M2.xsd" -> DocM2
          [] l = "R.xsd" -> DocR [] l = "R2.xsd" -> DocR2 [] l = "I.xsd" -> DocI
          [] l = "E.xsd" -> DocE
          [] l = "D.xsd" -> DocD [] l = "A3.xsd" -> DocA3
          [] l = "S.xsd" -> DocS [] l = "B2.xsd" -> DocB2]

\* a location that cannot be read
Unreadable == "N.xsd"

StripPrefixChoices == {<<>>, << <<"t">> >>}

(***************************************************************************)
(* The loader: main, Context.loadSchema and Schema.fromXsd.  A frame of    *)
(* the stack is one active Schema.fromXsd: its document, the namespace of  *)
(* its Schema o, ip, the next step of its four loops, and known, the       *)
(* number of namespaces that were registered when its loops started.  Two  *)
(* more fields are history: before is Context.schemas and at the length of *)
(* the log when Context.loadSchema was called; no action reads them.       *)
(***************************************************************************)
\* Steps with the imports followed after the declarations are registered
Steps_DeclarationsFirst(d) ==
    [k \in 1..Len(d.element) |-> [op |-> "element", i |-> k]]
    \o [k \in 1..Len(d.simpleType) |-> [op |-> "simpleType", i |-> k]]
    \o [k \in 1..Len(d.complexType) |-> [op |-> "complexType", i |-> k]]
    \o [k \in 1..Len(d.import) |-> [op |-> "import", i |-> k]]

\* the steps of the loops of lines 124 to 145 for document d, in order
Steps(d) ==
    [k \in 1..Len(d.import) |-> [op |-> "import", i |-> k]]
    \o [k \in 1..Len(d.element) |-> [op |-> "element", i |-> k]]
    \o [k \in 1..Len(d.simpleType) |-> [op |-> "simpleType", i |-> k]]
    \o [k \in 1..Len(d.complexType) |-> [op |-> "complexType", i |-> k]]

\* lines 117 to 122: every xmlns declaration of the root node
RECURSIVE SetAliases(_, _)
SetAliases(aliasedSchemas, xmlns) ==
    IF xmlns = <<>> THEN aliasedSchemas
    ELSE SetAliases(MapSet(aliasedSchemas, Head(xmlns).alias,
                           Head(xmlns).namespace), Tail(xmlns))

\* SchemaOf that makes a new Schema for every document
SchemaOf_Fresh(ctx, namespace) == NewSchema(namespace)

\* lines 111 to 115: the Schema of the namespace, a new one if there is none
SchemaOf(ctx, namespace) ==
    IF MapHas(ctx, namespace) THEN MapGet(ctx, namespace)
    ELSE NewSchema(namespace)

\* lines 109 to 122: Context.schemas when the loops of fromXsd start
Entered(ctx, d) ==
    MapSet(ctx, d.targetNamespace,
           [SchemaOf(ctx, d.targetNamespace) EXCEPT
               !.aliasedSchemas = SetAliases(@, d.xmlns)])

Frame(location, known) ==
    [doc |-> location, namespace |-> Docs[location].targetNamespace, ip |-> 1,
     known |-> known, before |-> schemas, at |-> Len(log)]

Top == stack[Len(stack)]
TopDoc == Docs[Top.doc]
TopStep == Steps(TopDoc)[Top.ip]
AtStep(op) ==
    /\ phase = "loading" /\ stack # <<>>
    /\ Top.ip <= Len(Steps(TopDoc))
    /\ TopStep.op = op

Advance == stack' = [stack EXCEPT ![Len(stack)].ip = @ + 1]

\* Fail that prints what was loaded before the Error
Fail_Partial(e) ==
    /\ phase' = "failed"
    /\ error' = e
    /\ stack' = <<>>
    /\ out' = Context_toTS(schemas, stripPrefixes)
    /\ UNCHANGED <<schemas, roots, log, stripPrefixes, unitVars>>

\* an Error that nothing catches: main rejects, the process exits with 1
Fail(e) ==
    /\ phase' = "failed"
    /\ error' = e
    /\ stack' = <<>>
    /\ UNCHANGED <<schemas, roots, out, log, stripPrefixes, unitVars>>

\* Context.loadSchema(location) called with the stack given: the file is
\* read and parsed, and Schema.fromXsd starts on it
LoadSchema(location, callers) ==
    IF location \notin Locations
    THEN Fail("ENOENT")
    ELSE /\ schemas' = Entered(schemas, Docs[location])
         /\ stack' = Append(callers,
                Frame(location, Len(Entered(schemas, Docs[location]))))
         /\ log' = Append(log, [ev |-> "load", doc |-> location,
                                namespace |-> Docs[location].targetNamespace,
                                name |-> <<>>])
         /\ UNCHANGED <<roots, phase, error, out, stripPrefixes, unitVars>>

\* main, lines 33 to 35: the next positional argument
LoadRoot ==
    /\ phase = "loading" /\ stack = <<>> /\ next <= Len(roots)
    /\ next' = next + 1
    /\ LoadSchema(roots[next], <<>>)

\* line 125: the namespace of the import is registered
SkipImport ==
    /\ AtStep("import")
    /\ MapHas(schemas, TopDoc.import[TopStep.i].namespace)
    /\ Advance
    /\ UNCHANGED <<schemas, roots, next, phase, error, out, log,
                   stripPrefixes, unitVars>>

\* FollowImport that skips by document: it follows the import when its
\* location was not loaded so far, whatever its namespace
FollowImport_ByLocation ==
    /\ AtStep("import")
    /\ \A k \in 1..Len(log) :
          log[k].doc # TopDoc.import[TopStep.i].schemaLocation
    /\ Len(stack) < MaxDepth
    /\ UNCHANGED next
    /\ LoadSchema(TopDoc.import[TopStep.i].schemaLocation,
                  [stack EXCEPT ![Len(stack)].ip = @ + 1])

\* lines 126 to 131: the import is followed
FollowImport ==
    /\ AtStep("import")
    /\ ~MapHas(schemas, TopDoc.import[TopStep.i].namespace)
    /\ Len(stack) < MaxDepth
    /\ UNCHANGED next
    /\ LoadSchema(TopDoc.import[TopStep.i].schemaLocation,
                  [stack EXCEPT ![Len(stack)].ip = @ + 1])

Registered(ev, name) ==
    log' = Append(log, [ev |-> ev, doc |-> Top.doc,
                        namespace |-> Top.namespace, name |-> name])

\* the step of a loop that builds an object and registers it in Schema o
Register(r, Add(_, _)) ==
    /\ UNCHANGED next
    /\ IF r.err # "" THEN Fail(r.err)
       ELSE /\ schemas' = MapSet(schemas, Top.namespace,
                                 Add(MapGet(schemas, Top.namespace), r.val))
            /\ Registered(r.val.kind, r.val.name)
            /\ Advance
            /\ UNCHANGED <<roots, phase, error, out, stripPrefixes, unitVars>>

\* lines 134 to 137
RegisterElement ==
    /\ AtStep("element")
    /\ Register(Element_fromXsd(schemas, MapGet(schemas, Top.namespace),
                                TopDoc.element[TopStep.i]),
                addElement)

\* lines 139 to 141
RegisterSimpleType ==
    /\ AtStep("simpleType")
    /\ Register(SimpleType_fromXsd(MapGet(schemas, Top.namespace),
                                   TopDoc.simpleType[TopStep.i]),
                addType)

\* lines 143 to 145
RegisterComplexType ==
    /\ AtStep("complexType")
    /\ Register(ComplexType_fromXsd(schemas, MapGet(schemas, Top.namespace),
                                    TopDoc.complexType[TopStep.i]),
                addType)

\* line 147: fromXsd returns to the loadSchema that called it
Return ==
    /\ phase = "loading" /\ stack # <<>>
    /\ Top.ip > Len(Steps(TopDoc))
    /\ stack' = SubSeq(stack, 1, Len(stack) - 1)
    /\ log' = Append(log, [ev |-> "return", doc |-> Top.doc,
                           namespace |-> Top.namespace, name |-> <<>>])
    /\ UNCHANGED <<schemas, roots, next, phase, error, out,
                   stripPrefixes, unitVars>>

\* main, lines 37 and 38: ctx.toTS() once every document is loaded, and
\* Context.toTS called again on the loaded Context
CallToTS ==
    /\ phase \in {"loading", "printed"} /\ stack = <<>> /\ next > Len(roots)
    /\ out' = Context_toTS(schemas, stripPrefixes)
    /\ phase' = "printed"
    /\ UNCHANGED <<schemas, roots, next, stack, error, log,
                   stripPrefixes, unitVars>>

Init ==
    /\ schemas = NewContext
    /\ stripPrefixes \in StripPrefixChoices
    /\ roots \in SeqsUpTo(Locations \cup {Unreadable}, MaxRoots)
    /\ next = 1 /\ stack = <<>> /\ phase = "loading"
    /\ error = "" /\ out = NoOut /\ log = <<>>
    /\ node = [tag |-> "none"] /\ obj = NoObj /\ ts = NoTs

Next ==
    \/ LoadRoot
    \/ SkipImport
    \/ FollowImport
    \/ RegisterElement
    \/ RegisterSimpleType
    \/ RegisterComplexType
    \/ Return
    \/ CallToTS

Spec == Init /\ [][Next]_vars

\* main with up to MaxReloads positionals among documents that load to their
\* end, so that a document is loaded again after others were
ReloadLocations ==
    {"A.xsd", "B.xsd", "A2.xsd", "B2.xsd", "A3.xsd", "D.xsd"}

InitReload ==
    /\ schemas = NewContext
    /\ stripPrefixes \in StripPrefixChoices
    /\ roots \in SeqsUpTo(ReloadLocations, MaxReloads)
    /\ next = 1 /\ stack = <<>> /\ phase = "loading"
    /\ error = "" /\ out = NoOut /\ log = <<>>
    /\ node = [tag |-> "none"] /\ obj = NoObj /\ ts = NoTs

SpecReload == InitReload /\ [][Next]_vars

(***************************************************************************)
(* Properties of the loader and of the emission, under Spec.               *)
(***************************************************************************)
\* the type (namespace, name) has an entry in Context.schemas
TypeRegistered(namespace, name) ==
    \E i \in 1..Len(schemas) :
        /\ schemas[i].key = namespace
        /\ \E t \in 1..Len(schemas[i].val.types) :
              schemas[i].val.types[t].key = name

ElementRegistered(namespace, name) ==
    \E i \in 1..Len(schemas) :
        /\ schemas[i].key = namespace
        /\ \E e \in 1..Len(schemas[i].val.elements) :
              schemas[i].val.elements[e].key = name

Dangling(type) ==
    type.kind = "ref" /\ ~TypeRegistered(type.namespace, type.name)

HasDeclarations(schema) == Len(schema.types) + Len(schema.elements) > 0

\* the printed block of entry i of Context.schemas
BlockOf(i) ==
    out.blocks[Cardinality({j \in 1..i : HasDeclarations(schemas[j].val)})]

Unwrapped(tsType) == IF tsType.k = "Many" THEN tsType.of ELSE tsType

\* the fields printed for ComplexType ct, in expression x, that have a
\* dangling TypeReference are typed unknown
DanglingAreUnknown(ct, x) ==
    /\ \A v \in 1..Len(ct.variants) : \A f \in 1..Len(ct.variants[v]) :
          Dangling(ct.variants[v][f].type) =>
              Unwrapped(x.arms[v][f].type) = TsUnknown
    /\ \A a \in 1..Len(ct.attributes) :
          (Dangling(ct.attributes[a].type) /\ ct.attributes[a].fixed = Undefined)
              => x.attributes[a].type = TsUnknown

\* C2: a TypeReference whose (namespace, name) is not registered when the
\* Context is rendered renders "unknown" in its field; the run does not
\* fail for it, and every declaration of every Schema is printed.
C2_DanglingReferenceIsUnknown ==
    /\ (\A k \in 1..Len(roots) : roots[k] = "U.xsd") => phase # "failed"
    /\ phase = "printed" =>
          \A i \in 1..Len(schemas) :
              HasDeclarations(schemas[i].val) =>
                  /\ Len(BlockOf(i)) = Len(schemas[i].val.types)
                                       + Len(schemas[i].val.elements)
                  /\ \A e \in 1..Len(schemas[i].val.elements) :
                        Dangling(schemas[i].val.elements[e].val.type) =>
                            Unwrapped(BlockOf(i)[Len(schemas[i].val.types) + e]
                                          .expr.field.type) = TsUnknown
                  /\ \A t \in 1..Len(schemas[i].val.types) :
                        schemas[i].val.types[t].val.kind = "complex" =>
                            DanglingAreUnknown(schemas[i].val.types[t].val,
                                               BlockOf(i)[t].expr)

\* U.xsd was printed: its element b, of a type in a namespace that no
\* Schema has, is typed Many<unknown>, and its three other declarations
\* are printed too
C2_Witness ==
    /\ phase = "printed"
    /\ roots = <<"U.xsd">>
    /\ Len(schemas) = 3
    /\ Dangling(schemas[3].val.elements[2].val.type)
    /\ Len(out.blocks[3]) = 5
    /\ out.blocks[3][4].expr.field.type = TsMany(TsUnknown)

\* a qualified name with more than one separator, with an alias that the
\* Schema does not declare, or without local name
Malformed(schema, qname) ==
    \/ Len(Split(qname, ":")) > 2
    \/ ~Truthy(At(Split(qname, ":"), 1))
    \/ /\ Len(Split(qname, ":")) = 2
       /\ Truthy(Split(qname, ":")[1])
       /\ \A a \in 1..Len(schema.aliasedSchemas) :
             schema.aliasedSchemas[a].key # Split(qname, ":")[1]

\* the type= values of the fields of the declaration made from node n (an
\* element, or a complexType with its sequence, choice and attributes)
RECURSIVE FieldTypes(_)
FieldTypes(n) ==
    IF "ref" \in DOMAIN n
    THEN IF n.ref # Undefined THEN {}
         ELSE IF n.type # Undefined THEN {n.type}
         ELSE FieldTypes(n.complexType)
    ELSE UNION {FieldTypes(n.sequence[i]) : i \in 1..Len(n.sequence)}
         \cup UNION {FieldTypes(n.choice[i]) : i \in 1..Len(n.choice)}
         \cup {n.attribute[i].type : i \in
                  {j \in 1..Len(n.attribute) : Truthy(n.attribute[j].type)}}

\* the ref= values of the elements of the declaration made from node n
RECURSIVE Refs(_)
Refs(n) ==
    IF "ref" \in DOMAIN n
    THEN IF n.ref # Undefined THEN {n.ref}
         ELSE IF n.type # Undefined THEN {}
         ELSE Refs(n.complexType)
    ELSE UNION {Refs(n.sequence[i]) : i \in 1..Len(n.sequence)}
         \cup UNION {Refs(n.choice[i]) : i \in 1..Len(n.choice)}

\* the node of the declaration that the innermost fromXsd registers next
Pending ==
    IF TopStep.op = "element" THEN TopDoc.element[TopStep.i]
    ELSE TopDoc.complexType[TopStep.i]

TopSchema == schemas[CHOOSE i \in 1..Len(schemas) : schemas[i].key = Top.namespace].val

PendingMalformedType ==
    /\ AtStep("element") \/ AtStep("complexType")
    /\ \E q \in FieldTypes(Pending) : Malformed(TopSchema, q)

RefRegistered(schema, qname) ==
    ElementRegistered(
        IF Len(Split(qname, ":")) = 2 /\ Truthy(Split(qname, ":")[1])
        THEN schema.aliasedSchemas[
                CHOOSE a \in 1..Len(schema.aliasedSchemas) :
                    schema.aliasedSchemas[a].key = Split(qname, ":")[1]].val
        ELSE schema.namespace,
        At(Split(qname, ":"), 1))

Unresolved(schema, qname) ==
    Malformed(schema, qname) \/ ~RefRegistered(schema, qname)

\* C4: an element ref= that is malformed, or that names a pair with no
\* registered Element, makes Element.fromXsd throw: the run fails, with
\* "Invalid element reference" or "Element not found" for a top-level
\* element, and the declaration is not registered.
C4_UnresolvedRefAborts ==
    [][/\ (AtStep("element") /\ Pending.ref # Undefined
              /\ Malformed(TopSchema, Pending.ref)) =>
             /\ phase' = "failed" /\ error' = "Invalid element reference"
             /\ schemas' = schemas
       /\ (AtStep("element") /\ Pending.ref # Undefined
              /\ ~Malformed(TopSchema, Pending.ref)
              /\ ~RefRegistered(TopSchema, Pending.ref)) =>
             /\ phase' = "failed" /\ error' = "Element not found"
             /\ schemas' = schemas
       /\ (AtStep("complexType")
              /\ \E q \in Refs(Pending) : Unresolved(TopSchema, q)) =>
             /\ phase' = "failed" /\ schemas' = schemas]_vars

\* the load of R.xsd failed on its fourth element, after the first three
\* (two of them by ref=) were registered
C4_Witness ==
    /\ phase = "failed" /\ error = "Element not found"
    /\ roots = <<"R.xsd">>
    /\ ElementRegistered(NsR, NameA)
    /\ ElementRegistered(NsR, Signature)
    /\ ~ElementRegistered(NsR, NameE)

\* the load of document l has returned
Completed(l) ==
    \E k \in 1..Len(log) : log[k].ev = "return" /\ log[k].doc = l

\* C5: there is one Schema per namespace, and it holds the types and the
\* elements of every document of that namespace that was loaded: a later
\* document of the namespace is merged into it.
C5_MergeByNamespace ==
    /\ \A i, j \in 1..Len(schemas) : schemas[i].key = schemas[j].key => i = j
    /\ \A l \in Locations :
          Completed(l) =>
              /\ \A t \in 1..Len(Docs[l].simpleType) :
                    TypeRegistered(Docs[l].targetNamespace,
                                   Docs[l].simpleType[t].name)
              /\ \A t \in 1..Len(Docs[l].complexType) :
                    TypeRegistered(Docs[l].targetNamespace,
                                   Docs[l].complexType[t].name)
              /\ \A e \in 1..Len(Docs[l].element) :
                    Docs[l].element[e].name # Undefined =>
                        ElementRegistered(Docs[l].targetNamespace,
                                          Docs[l].element[e].name)

\* A2.xsd, then A.xsd: the one Schema of their namespace has the types
\* t4 and t1 of A2.xsd and t3 of A.xsd, and the elements of both
C5_Witness ==
    /\ phase = "printed"
    /\ roots = <<"A2.xsd", "A.xsd">>
    /\ MapKeys(MapGet(schemas, NsA).types) = <<NameT4, NameT1, NameT3>>
    /\ MapKeys(MapGet(schemas, NsA).elements) = <<NameB, NameA>>
    /\ Cardinality({i \in 1..Len(schemas) : schemas[i].key = NsA}) = 1

\* C6: no chain of imports is followed forever.  A chain that comes back to
\* a document it is loading, with no namespace registered since that load
\* started, repeats itself without end; so a document is loaded again
\* inside its own load only after a further namespace was registered.
C6_ImportsTerminate ==
    \A i, j \in 1..Len(stack) :
        (i < j /\ stack[i].doc = stack[j].doc) =>
            stack[i].known < stack[j].known

C13_NoPartialOutput ==
    /\ phase = "failed" => (out = NoOut /\ ~ENABLED CallToTS)
    /\ out # NoOut =>
          /\ phase = "printed"
          /\ error = ""
          /\ stack = <<>>
          /\ \A k \in 1..Len(roots) : Completed(roots[k])
          /\ Cardinality({k \in 1..Len(log) : log[k].ev = "load"})
                = Cardinality({k \in 1..Len(log) : log[k].ev = "return"})
          /\ out = Context_toTS(schemas, stripPrefixes)

\* A.xsd and the document it imports were loaded to the end, then R.xsd
\* failed: nothing is printed
C13_Witness ==
    /\ phase = "failed"
    /\ roots = <<"A.xsd", "R.xsd">>
    /\ Completed("A.xsd") /\ Completed("B.xsd")
    /\ TypeRegistered(NsA, NameT3)
    /\ ElementRegistered(NsR, NameA)
    /\ out = NoOut

\* the names that the registrations of the kinds given, in the namespace
\* given, have in the first k entries of the log, each at its first place
RECURSIVE FirstRegistered(_, _, _)
FirstRegistered(namespace, kinds, k) ==
    IF k = 0 THEN <<>>
    ELSE LET before == FirstRegistered(namespace, kinds, k - 1)
         IN  IF /\ log[k].ev \in kinds
                /\ log[k].namespace = namespace
                /\ \A b \in 1..Len(before) : before[b] # log[k].name
             THEN Append(before, log[k].name)
             ELSE before

\* the namespaces that have a declaration, in the order of Context.schemas
RECURSIVE Declaring(_)
Declaring(k) ==
    IF k = 0 THEN <<>>
    ELSE IF HasDeclarations(schemas[k].val)
         THEN Append(Declaring(k - 1), schemas[k].key)
         ELSE Declaring(k - 1)

\* C14: the text is the fixed header and then one block per Schema that
\* has a declaration, in the insertion order of Context.schemas; a Schema
\* without declaration gives no block; a block has the declarations of all
\* the types of its Schema and then those of all its elements, each group
\* in the order of registration.
C14_EmissionOrder ==
    phase = "printed" =>
        /\ out.header = "@_"
        /\ Len(out.blocks) = Len(Declaring(Len(schemas)))
        /\ \A b \in 1..Len(out.blocks) :
              LET schema == MapGet(schemas, Declaring(Len(schemas))[b])
                  nt == Len(schema.types)
              IN  /\ Len(out.blocks[b]) = nt + Len(schema.elements)
                  /\ \A t \in 1..nt :
                        /\ out.blocks[b][t].expr.k # "Prolog"
                        /\ out.blocks[b][t].name
                              = toTSTypeName(stripPrefixes, schema.types[t].val)
                  /\ \A e \in 1..Len(schema.elements) :
                        /\ out.blocks[b][nt + e].expr.k = "Prolog"
                        /\ out.blocks[b][nt + e].expr.field.name
                              = schema.elements[e].val.name
                  /\ b > 2 =>
                        /\ MapKeys(schema.types)
                              = FirstRegistered(schema.namespace,
                                                {"simple", "complex"}, Len(log))
                        /\ MapKeys(schema.elements)
                              = FirstRegistered(schema.namespace,
                                                {"element"}, Len(log))

\* E.xsd, which declares nothing, then A.xsd, which imports B.xsd: five
\* Schemas and four blocks; the third block is that of A.xsd, with its two
\* types before its element
C14_Witness ==
    /\ phase = "printed"
    /\ roots = <<"E.xsd", "A.xsd">>
    /\ stripPrefixes = <<>>
    /\ MapKeys(schemas) = <<XS, DS, NsX, NsA, NsB>>
    /\ Len(out.blocks) = 4
    /\ [i \in 1..Len(out.blocks[3]) |-> out.blocks[3][i].name]
          = << <<"T", "1">>, <<"T", "3">>, <<"A", "Element">> >>

\* the documents that are given to a run: its positional documents and,
\* from them, the documents that their imports name
RECURSIVE Imported(_)
Imported(given) ==
    LET more == given \cup
                   (UNION {{Docs[l].import[i].schemaLocation :
                               i \in 1..Len(Docs[l].import)} : l \in given}
                    \cap Locations)
    IN  IF more = given THEN given ELSE Imported(more)

Given == Imported({roots[k] : k \in 1..Len(roots)} \cap Locations)

\* document l declares the type (namespace, name)
Declares(l, namespace, name) ==
    /\ Docs[l].targetNamespace = namespace
    /\ \/ \E t \in 1..Len(Docs[l].simpleType) :
              Docs[l].simpleType[t].name = name
       \/ \E t \in 1..Len(Docs[l].complexType) :
              Docs[l].complexType[t].name = name

WithoutRef(l) ==
    /\ \A e \in 1..Len(Docs[l].element) : Refs(Docs[l].element[e]) = {}
    /\ \A t \in 1..Len(Docs[l].complexType) :
          Refs(Docs[l].complexType[t]) = {}

\* the expression of a field whose TypeReference names a type that a
\* document of the set given declares: the identifier of that type
IdentifierIn(documents, type, tsType) ==
    (\E l \in documents : Declares(l, type.namespace, type.name)) =>
        Unwrapped(tsType) = TsId(getTSTypeName(stripPrefixes, type.name))

\* C16: a field whose type is declared after the field, in its document,
\* in a document loaded later or in a cycle of complex types, has the
\* identifier of the type and not unknown; with documents that have no
\* ref=, the type expression of a field is the same for every load order:
\* the identifier, when a document given to the run declares the type.
C16_LoadOrderIndependent ==
    (phase = "printed" /\ \A l \in Given : WithoutRef(l)) =>
        \A i \in 1..Len(schemas) :
            /\ \A e \in 1..Len(schemas[i].val.elements) :
                  schemas[i].val.elements[e].val.type.kind = "ref" =>
                      IdentifierIn(Given, schemas[i].val.elements[e].val.type,
                          BlockOf(i)[Len(schemas[i].val.types) + e]
                              .expr.field.type)
            /\ \A t \in 1..Len(schemas[i].val.types) :
                  schemas[i].val.types[t].val.kind = "complex" =>
                      \A v \in 1..Len(schemas[i].val.types[t].val.variants) :
                      \A f \in 1..Len(schemas[i].val.types[t].val.variants[v]) :
                          schemas[i].val.types[t].val.variants[v][f].type.kind
                              = "ref" =>
                              IdentifierIn(Given,
                                  schemas[i].val.types[t].val.variants[v][f].type,
                                  BlockOf(i)[t].expr.arms[v][f].type)

\* the loads that are open after the first k entries of the log: the
\* places of their "load" entries, innermost last
RECURSIVE Open(_)
Open(k) ==
    IF k = 0 THEN <<>>
    ELSE IF log[k].ev = "load" THEN Append(Open(k - 1), k)
    ELSE IF log[k].ev = "return"
         THEN SubSeq(Open(k - 1), 1, Len(Open(k - 1)) - 1)
    ELSE Open(k - 1)

\* the load inside which entry k of the log was made, 0 for a root load
Owner(k) == IF Open(k - 1) = <<>> THEN 0 ELSE Open(k - 1)[Len(Open(k - 1))]

IsRegistration(k) == log[k].ev \in {"element", "simple", "complex"}

KindRank(ev) == CASE ev = "element" -> 1 [] ev = "simple" -> 2 [] ev = "complex" -> 3

\* the kinds of the declarations of document d, in the order of the code
KindsOf(d) ==
    [k \in 1..Len(d.element) |-> "element"]
    \o [k \in 1..Len(d.simpleType) |-> "simple"]
    \o [k \in 1..Len(d.complexType) |-> "complex"]

\* the places in the log of the registrations made by load a
RegistrationsOf(a) == {k \in 1..Len(log) : IsRegistration(k) /\ Owner(k) = a}

\* C17: a registration is made by the innermost load that is open, so every
\* import that a document triggered has returned, with its own imports and
\* registrations, before the document registers anything, and no import is
\* followed after a registration of the document; a document registers its
\* elements, then its simple types, then its complex types, in document
\* order; the root documents are loaded in the order given, one starting
\* when the one before has returned.
C17_LoadOrder ==
    /\ \A k \in 1..Len(log) :
          IsRegistration(k) =>
              /\ Owner(k) # 0
              /\ log[Owner(k)].doc = log[k].doc
              /\ \A j \in (k + 1)..Len(log) :
                    log[j].ev = "load" => Owner(j) # Owner(k)
              /\ log[k].ev
                    = KindsOf(Docs[log[k].doc])[
                          Cardinality({j \in RegistrationsOf(Owner(k)) : j <= k})]
    /\ \A k \in 1..Len(log) :
          log[k].ev = "return" =>
              /\ Owner(k) # 0 /\ log[Owner(k)].doc = log[k].doc
              /\ Cardinality(RegistrationsOf(Owner(k)))
                    = Len(KindsOf(Docs[log[k].doc]))
    /\ LET rootLoads == {k \in 1..Len(log) : log[k].ev = "load" /\ Owner(k) = 0}
       IN  /\ Cardinality(rootLoads) <= Len(roots)
           /\ \A k \in rootLoads :
                 log[k].doc = roots[Cardinality({j \in rootLoads : j <= k})]

\* A.xsd, then U.xsd: B.xsd, which A.xsd imports, is loaded and has
\* returned before A.xsd registers its element, simple type and complex
\* type; U.xsd is loaded after A.xsd has returned
C17_Witness ==
    /\ phase = "printed"
    /\ roots = <<"A.xsd", "U.xsd">>
    /\ Len(log) > 10
    /\ [k \in 1..11 |-> <<log[k].ev, log[k].doc>>]
          = << <<"load", "A.xsd">>, <<"load", "B.xsd">>, <<"element", "B.xsd">>,
               <<"simple", "B.xsd">>, <<"return", "B.xsd">>,
               <<"element", "A.xsd">>, <<"simple", "A.xsd">>,
               <<"complex", "A.xsd">>, <<"return", "A.xsd">>,
               <<"load", "U.xsd">>, <<"element", "U.xsd">> >>

\* the step registers a declaration: the log gets its entry
Registers == Len(log') = Len(log) + 1 /\ log'[Len(log')].ev # "load"
                                      /\ log'[Len(log')].ev # "return"

\* the map that a registration of the kind given is made in
MapOf(ctx, namespace, ev) ==
    IF ev = "element" THEN MapGet(ctx, namespace).elements
    ELSE MapGet(ctx, namespace).types

\* the definition that the step in progress builds
Built_Pending ==
    CASE TopStep.op = "element" ->
            Element_fromXsd(schemas, TopSchema, Pending).val
      [] TopStep.op = "simpleType" ->
            SimpleType_fromXsd(TopSchema, TopDoc.simpleType[TopStep.i]).val
      [] TopStep.op = "complexType" ->
            ComplexType_fromXsd(schemas, TopSchema, Pending).val

\* C18: registering a type or an element under a name that its Schema
\* already has replaces the entry, with no error: the name then maps to the
\* definition registered last, the map has as many entries as before, the
\* name keeps the place of its first registration and the other entries
\* are as they were; a new name is added at the end.
C18_RedeclarationOverwrites ==
    [][Registers =>
          LET e == log'[Len(log')]
              before == MapOf(schemas, e.namespace, e.ev)
              after == MapOf(schemas', e.namespace, e.ev)
          IN  /\ phase' = "loading" /\ error' = ""
              /\ MapKeys(after)
                    = IF \E i \in 1..Len(before) : before[i].key = e.name
                      THEN MapKeys(before)
                      ELSE Append(MapKeys(before), e.name)
              /\ \A i \in 1..Len(after) :
                    after[i].val = IF after[i].key = e.name THEN Built_Pending
                                   ELSE before[i].val
              /\ \A i, j \in 1..Len(after) :
                    after[i].key = after[j].key => i = j]_vars

\* A.xsd, then A2.xsd, which declares t4 and then t1 again: t1 is still
\* the first of the three types of the namespace, with the definition of
\* A2.xsd
C18_Witness ==
    /\ phase = "printed"
    /\ roots = <<"A.xsd", "A2.xsd">>
    /\ MapKeys(MapGet(schemas, NsA).types) = <<NameT1, NameT3, NameT4>>
    /\ MapGet(schemas, NsA).types[1].val.enumeration = << <<"2">> >>
    /\ MapGet(schemas, NsA).types[1].val.type.name = NameT4

\* C20: in every state of a run, after loads that returned and after a
\* load that failed, every entry of Context.schemas has the namespace of
\* its Schema as key, every entry of the types and of the elements of a
\* Schema has the name of its definition as key, and the Schemas of
\* XMLSchema and of xmldsig are the first two entries of Context.schemas.
C20_KeysAreNames ==
    /\ Len(schemas) >= 2
    /\ schemas[1].key = <<"http://www.w3.org/2001/XMLSchema">>
    /\ schemas[2].key = <<"http://www.w3.org/2000/09/xmldsig#">>
    /\ \A i \in 1..Len(schemas) :
          /\ schemas[i].key = schemas[i].val.namespace
          /\ \A t \in 1..Len(schemas[i].val.types) :
                schemas[i].val.types[t].key = schemas[i].val.types[t].val.name
          /\ \A e \in 1..Len(schemas[i].val.elements) :
                schemas[i].val.elements[e].key
                    = schemas[i].val.elements[e].val.name

\* B.xsd imported A.xsd, whose complex type failed on its ref=: the load
\* was aborted with the Schemas of both and the first declarations of
\* A.xsd registered
C20_Witness ==
    /\ phase = "failed"
    /\ roots = <<"B.xsd">>
    /\ MapKeys(schemas) = <<XS, DS, NsB, NsA>>
    /\ MapKeys(MapGet(schemas, NsA).types) = <<NameT1>>
    /\ MapKeys(MapGet(schemas, NsA).elements) = <<NameA>>

\* the import directive that the innermost fromXsd processes next
PendingImport == TopDoc.import[TopStep.i]

NamespaceRegistered(namespace) ==
    \E i \in 1..Len(schemas) : schemas[i].key = namespace

\* document l was handed to Context.loadSchema and read
Loaded(l) == \E k \in 1..Len(log) : log[k].ev = "load" /\ log[k].doc = l

\* the step calls Context.loadSchema on the location given: the document is
\* read and its fromXsd starts, or it cannot be read and the run fails
LoadTriggered(location) ==
    IF location \in Locations
    THEN /\ Len(log') = Len(log) + 1
         /\ log'[Len(log')].ev = "load"
         /\ log'[Len(log')].doc = location
         /\ Len(stack') = Len(stack) + 1
         /\ stack'[Len(stack')].doc = location
         /\ \E i \in 1..Len(schemas') :
               schemas'[i].key = Docs[location].targetNamespace
    ELSE phase' = "failed" /\ error' = "ENOENT"

\* C21: an import directive makes Context.loadSchema load its location if
\* and only if its namespace is not a key of Context.schemas when it is
\* processed.  An import of a namespace that is registered, the built-in
\* ones among them, loads nothing: Context.schemas and the documents loaded
\* are as they were, and the loop goes on to the next directive.
C21_ImportByNamespace ==
    [][AtStep("import") =>
          IF NamespaceRegistered(PendingImport.namespace)
          THEN /\ schemas' = schemas
               /\ log' = log
               /\ phase' = "loading"
               /\ Len(stack') = Len(stack)
               /\ stack'[Len(stack)].doc = Top.doc
               /\ stack'[Len(stack)].ip = Top.ip + 1
          ELSE /\ PendingImport.namespace \notin {XS, DS}
               /\ LoadTriggered(PendingImport.schemaLocation)]_vars

\* A.xsd, then D.xsd: the import of B.xsd by A.xsd was followed, the import
\* of XMLSchema by A.xsd loaded nothing, and the import of A2.xsd by D.xsd,
\* under the namespace of A.xsd, was skipped: A2.xsd was never loaded and
\* its type t4 and its element b are in no Schema
C21_Witness ==
    /\ phase = "printed"
    /\ roots = <<"A.xsd", "D.xsd">>
    /\ Loaded("B.xsd") /\ Completed("D.xsd")
    /\ ~Loaded("A2.xsd")
    /\ ~TypeRegistered(NsA, NameT4)
    /\ ~ElementRegistered(NsA, NameB)
    /\ MapKeys(schemas) = <<XS, DS, NsA, NsB, NsD>>

\* the Element that ref= qname names from the Schema given, as it is
\* registered in Context.schemas now
RefTarget(schema, qname) ==
    LET namespace ==
            IF Len(Split(qname, ":")) = 2 /\ Truthy(Split(qname, ":")[1])
            THEN schema.aliasedSchemas[
                    CHOOSE a \in 1..Len(schema.aliasedSchemas) :
                        schema.aliasedSchemas[a].key = Split(qname, ":")[1]].val
            ELSE schema.namespace
        elements ==
            schemas[CHOOSE i \in 1..Len(schemas) :
                        schemas[i].key = namespace].val.elements
    IN  elements[CHOOSE e \in 1..Len(elements) :
                     elements[e].key = At(Split(qname, ":"), 1)].val

Resolves(schema, qname) ==
    ~Malformed(schema, qname) /\ RefRegistered(schema, qname)

\* the Element el has the name and the type of the Element target
CopiedFrom(el, target) == el.name = target.name /\ el.type = target.type

\* the Schema of the innermost fromXsd after the step
TopSchemaAfter ==
    schemas'[CHOOSE i \in 1..Len(schemas') :
                 schemas'[i].key = Top.namespace].val

\* the fields that ComplexType ct has for the elements of node n that have
\* a ref= are copies of the targets of these
RefFieldsCopied(ct, n) ==
    /\ \A i \in 1..Len(n.sequence) :
          n.sequence[i].ref # Undefined =>
              CopiedFrom(ct.variants[1][i],
                         RefTarget(TopSchema, n.sequence[i].ref))
    /\ \A j \in 1..Len(n.choice) :
          n.choice[j].ref # Undefined =>
              CopiedFrom(
                  ct.variants[(IF Len(n.sequence) > 0 THEN 1 ELSE 0) + j][1],
                  RefTarget(TopSchema, n.choice[j].ref))

\* C22: an element ref= is looked up when the step that ingests its
\* declaration is taken.  When its target is registered at that moment the
\* Element built has the name and the type that the target has then: a
\* top-level one is registered under that name, one inside a complexType
\* is the field at its place.  When the name is well formed and the target
\* is not registered then, the run fails with "Element not found" and
\* nothing is registered; this is so for the element of R.xsd that refers
\* to an element R.xsd declares further down, and for A.xsd when it is
\* imported by B.xsd and refers to the element of B.xsd.
C22_EagerElementRef ==
    /\ [][(AtStep("element") /\ Pending.ref # Undefined) =>
             IF Resolves(TopSchema, Pending.ref)
             THEN /\ phase' = "loading"
                  /\ \E e \in 1..Len(TopSchemaAfter.elements) :
                        /\ TopSchemaAfter.elements[e].key
                              = RefTarget(TopSchema, Pending.ref).name
                        /\ CopiedFrom(TopSchemaAfter.elements[e].val,
                                      RefTarget(TopSchema, Pending.ref))
             ELSE /\ phase' = "failed"
                  /\ schemas' = schemas
                  /\ ~Malformed(TopSchema, Pending.ref)
                        => error' = "Element not found"]_vars
    /\ [][AtStep("complexType") =>
             IF \A q \in Refs(Pending) : Resolves(TopSchema, q)
             THEN phase' = "loading" =>
                     \E t \in 1..Len(TopSchemaAfter.types) :
                         /\ TopSchemaAfter.types[t].key = Pending.name
                         /\ RefFieldsCopied(TopSchemaAfter.types[t].val,
                                            Pending)
             ELSE /\ phase' = "failed"
                  /\ schemas' = schemas
                  /\ (\A q \in Refs(Pending) \cup FieldTypes(Pending) :
                         ~Malformed(TopSchema, q))
                        => error' = "Element not found"]_vars
    /\ [](/\ ~Completed("R.xsd")
          /\ (roots # <<>> /\ roots[1] \in {"R.xsd", "B.xsd"}) =>
                /\ phase # "printed"
                /\ ~Completed("A.xsd") /\ ~Completed("B.xsd")
                /\ phase = "failed" => error = "Element not found")

\* A.xsd, then B2.xsd: the field of the complex type t3 of A.xsd that is a
\* ref= to the element e of B.xsd has the name and the type that e had
\* when A.xsd was ingested, not the type that B2.xsd gave e afterwards
C22_Witness ==
    /\ phase = "printed"
    /\ roots = <<"A.xsd", "B2.xsd">>
    /\ MapGet(MapGet(schemas, NsA).types, NameT3).variants[1][1].name = NameE
    /\ MapGet(MapGet(schemas, NsA).types, NameT3).variants[1][1].type
          = TypeReference(NsA, NameT1)
    /\ MapGet(MapGet(schemas, NsB).elements, NameE).type
          = TypeReference(NsA, NameT3)

\* the entries of the log, up to entry at, of the kind given for document l
EntriesOf(l, ev, at) == {k \in 1..at : log[k].ev = ev /\ log[k].doc = l}

Latest(entries) == CHOOSE k \in entries : \A j \in entries : j <= k

\* the entry at which the latest load of l that returned by entry at started
PreviousLoad(l, at) ==
    Latest(EntriesOf(l, "load", Latest(EntriesOf(l, "return", at))))

\* the document that main is loading was loaded to its end before
Reload ==
    /\ phase = "loading" /\ stack # <<>>
    /\ EntriesOf(stack[1].doc, "return", stack[1].at) # {}

\* the load that main called returns
RootReturn == Len(stack) = 1 /\ stack' = <<>> /\ phase' = "loading"

\* the (namespace, name) pair that ref= q names in document d, through the
\* xmlns declarations of d
RefPair(d, q) ==
    <<IF Len(Split(q, ":")) = 2 /\ Truthy(Split(q, ":")[1])
      THEN IF \E a \in 1..Len(d.xmlns) : d.xmlns[a].alias = Split(q, ":")[1]
           THEN d.xmlns[CHOOSE a \in 1..Len(d.xmlns) :
                            d.xmlns[a].alias = Split(q, ":")[1]].namespace
           ELSE Undefined
      ELSE d.targetNamespace,
      At(Split(q, ":"), 1)>>

\* el, built for an element with ref= q of document d, has the name and
\* the type of the Element that q names in Context ctx
StillCopyOf(ctx, d, q, el) ==
    /\ HasElement(ctx, RefPair(d, q)[1], RefPair(d, q)[2])
    /\ CopiedFrom(el, GetElement(ctx, RefPair(d, q)[1], RefPair(d, q)[2]))

\* in Context ctx, what document d registered for its elements with ref=,
\* at the top level and as children of its complex types, has the name and
\* the type that the target of the ref= has in ctx
CopiesUpToDate(ctx, d) ==
    /\ \A e \in 1..Len(d.element) :
          d.element[e].ref # Undefined =>
              /\ HasElement(ctx, d.targetNamespace,
                            RefPair(d, d.element[e].ref)[2])
              /\ StillCopyOf(ctx, d, d.element[e].ref,
                     GetElement(ctx, d.targetNamespace,
                                RefPair(d, d.element[e].ref)[2]))
    /\ \A t \in 1..Len(d.complexType) :
          LET n == d.complexType[t]
              first == IF Len(n.sequence) > 0 THEN 1 ELSE 0
          IN  Refs(n) # {} =>
                /\ HasType(ctx, d.targetNamespace, n.name)
                /\ GetType(ctx, d.targetNamespace, n.name).kind = "complex"
                /\ Len(GetType(ctx, d.targetNamespace, n.name).variants)
                      = first + Len(n.choice)
                /\ \A i \in 1..Len(n.sequence) :
                      n.sequence[i].ref # Undefined =>
                          StillCopyOf(ctx, d, n.sequence[i].ref,
                              GetType(ctx, d.targetNamespace, n.name)
                                  .variants[1][i])
                /\ \A j \in 1..Len(n.choice) :
                      n.choice[j].ref # Undefined =>
                          StillCopyOf(ctx, d, n.choice[j].ref,
                              GetType(ctx, d.targetNamespace, n.name)
                                  .variants[first + j][1])

\* since the previous load of the document that main is loading started,
\* no other document of its namespace was loaded; the namespaces of its
\* imports are registered; and the elements that it refers to by ref= have
\* the name and the type that its previous load copied
Undisturbed ==
    LET l == stack[1].doc
    IN  /\ \A k \in (PreviousLoad(l, stack[1].at) + 1)..stack[1].at :
              ~(/\ log[k].ev = "load" /\ log[k].doc # l
                /\ log[k].namespace = Docs[l].targetNamespace)
        /\ \A i \in 1..Len(Docs[l].import) :
              \E j \in 1..Len(stack[1].before) :
                  stack[1].before[j].key = Docs[l].import[i].namespace
        /\ CopiesUpToDate(stack[1].before, Docs[l])

ElementNames(elements) == {elements[i].name : i \in 1..Len(elements)}

AllElementNames(variants) ==
    UNION {ElementNames(variants[j]) : j \in 1..Len(variants)}

\* how many elements named nm the variants other than variant i declare
OthersNamed(variants, i, nm) ==
    Cardinality(UNION {{<<j, e>> : e \in {x \in 1..Len(variants[j]) :
                                              variants[j][x].name = nm}} :
                       j \in (1..Len(variants)) \ {i}})

OwnNamed(variant, nm) ==
    Cardinality({e \in 1..Len(variant) : variant[e].name = nm})

ArmOfVariant(variants, arm, i) ==
    /\ {arm[f].name : f \in 1..Len(arm)} = AllElementNames(variants)
    /\ \A f \in 1..Len(variants[i]) :
          arm[f].name = variants[i][f].name /\ arm[f].type # TsUndefined
    /\ \A nm \in AllElementNames(variants) :
          /\ Cardinality({f \in 1..Len(arm) :
                 arm[f].name = nm /\ arm[f].type # TsUndefined})
             = OwnNamed(variants[i], nm)
          /\ Cardinality({f \in 1..Len(arm) :
                 arm[f].name = nm /\ arm[f].type = TsUndefined})
             = OthersNamed(variants, i, nm)

ComplexTypeRendered == node.tag = "complexType" /\ ts # NoTs

\* C1: a ComplexType with two or more variants renders a union of one arm
\* per variant; every arm holds the fields of its own variant, none of them
\* typed undefined, plus exactly one undefined-typed field per element of
\* every other variant, so the names of an arm are the names of all
\* variants; variants that share an element name are included.
C1_UnionArms ==
    (ComplexTypeRendered /\ Len(obj.variants) >= 2) =>
        /\ ts.union
        /\ Len(ts.arms) = Len(obj.variants)
        /\ \A i \in 1..Len(obj.variants) :
              ArmOfVariant(obj.variants, ts.arms[i], i)

\* a union was rendered for three variants, two of them with the same content
C1_Witness ==
    /\ ComplexTypeRendered
    /\ Len(obj.variants) >= 3
    /\ \E i, j \in 1..Len(obj.variants) :
          i # j /\ obj.variants[i] = obj.variants[j]

ElementRendered == node.tag = "element" /\ ts # NoTs

IsMany(tsType) == tsType.k = "Many"

\* C8: the type of an element's field is wrapped in Many<...> exactly when
\* maxOccurs > 1; no maxOccurs attribute and maxOccurs="unbounded" give an
\* unbounded maxOccurs and a wrapped field; maxOccurs 0 and 1 give no wrapper.
C8_ManyIffMaxOccurs ==
    /\ ElementRendered =>
          /\ IsMany(ts.type) <=>
                \/ obj.maxOccurs = Infinity
                \/ (obj.maxOccurs.t = "num" /\ obj.maxOccurs.v > 1)
          /\ IsMany(ts.type) => ~IsMany(ts.type.of)
          /\ node.n.maxOccurs \in {Undefined, <<"unbounded">>} =>
                obj.maxOccurs = Infinity /\ IsMany(ts.type)
          /\ node.n.maxOccurs \in {<<"0">>, <<"1">>} => ~IsMany(ts.type)
    /\ ComplexTypeRendered =>
          \A i \in 1..Len(obj.variants) : \A f \in 1..Len(obj.variants[i]) :
              IsMany(ts.arms[i][f].type) <=>
                 \/ obj.variants[i][f].maxOccurs = Infinity
                 \/ (obj.variants[i][f].maxOccurs.t = "num"
                     /\ obj.variants[i][f].maxOccurs.v > 1)

\* an element with maxOccurs="1" was rendered
C8_Witness ==
    ElementRendered /\ node.n.maxOccurs = <<"1">> /\ ~IsMany(ts.type)

\* C9: an element's field is optional exactly when minOccurs is 0, which it
\* is for an element without minOccurs attribute; an attribute's field is
\* optional exactly when use is not "required".
C9_OptionalIffMinOccursZero ==
    /\ ElementRendered =>
          /\ ts.optional <=> (obj.minOccurs = Num(0))
          /\ node.n.minOccurs = Undefined =>
                obj.minOccurs = Num(0) /\ ts.optional
          /\ node.n.minOccurs \in {<<"1">>, <<"2">>} => ~ts.optional
    /\ (node.tag = "attribute" /\ ts # NoTs) =>
          ts.optional <=> (node.n.use # <<"required">>)

\* an element without minOccurs and a required attribute were rendered
C9_Witness ==
    \/ ElementRendered /\ node.n.minOccurs = Undefined /\ ts.optional
    \/ node.tag = "attribute" /\ ts # NoTs /\ ~ts.optional

SimpleTypeRendered == node.tag = "simpleType" /\ ts # NoTs

\* a decimal numeral: digits, or digits, one point and digits
DecimalNumeral(s) ==
    /\ Len(Split(s, ".")) \in {1, 2}
    /\ \A k \in 1..Len(Split(s, ".")) :
          /\ Split(s, ".")[k] # <<>>
          /\ \A c \in 1..Len(Split(s, ".")[k]) :
                Split(s, ".")[k][c] \in
                    {"0", "1", "2", "3", "4", "5", "6", "7", "8", "9"}

QuotedTexts(lits) ==
    LET q == SelectSeq(lits, LAMBDA l : l.quoted)
    IN  [i \in 1..Len(q) |-> q[i].text]

\* C10: with a non-empty enumeration the type expression is the union of
\* the quoted literal of every value, in declaration order, each numeric
\* value followed at once by its bare literal, and nothing else: the
\* restriction base is not part of it.
C10_EnumerationUnion ==
    (SimpleTypeRendered /\ Len(node.n.enumeration) > 0) =>
        /\ ts.expr.k = "union"
        /\ QuotedTexts(ts.expr.lits) = node.n.enumeration
        /\ \A p \in 1..Len(ts.expr.lits) :
              LET l == ts.expr.lits[p]
              IN  /\ ~l.quoted =>
                        /\ p > 1
                        /\ ts.expr.lits[p - 1].quoted
                        /\ ts.expr.lits[p - 1].text = l.text
                        /\ DecimalNumeral(l.text)
                  /\ (l.quoted /\ DecimalNumeral(l.text)) =>
                        /\ p < Len(ts.expr.lits)
                        /\ ~ts.expr.lits[p + 1].quoted

\* the enumeration "1", "2" was rendered as "1" | 1 | "2" | 2
C10_Witness ==
    /\ SimpleTypeRendered
    /\ node.n.enumeration = << <<"1">>, <<"2">> >>
    /\ ts.expr.lits = <<[quoted |-> TRUE, text |-> <<"1">>],
                        [quoted |-> FALSE, text |-> <<"1">>],
                        [quoted |-> TRUE, text |-> <<"2">>],
                        [quoted |-> FALSE, text |-> <<"2">>]>>

\* the label of the doc line of a facet, and its place among the six
FacetLabel(tag) ==
    CASE tag = "minInclusive" -> "Min"
      [] tag = "totalDigits" -> "Total digits"
      [] tag = "fractionDigits" -> "Fraction digits"
      [] tag = "minLength" -> "Min length"
      [] tag = "maxLength" -> "Max length"
      [] tag = "pattern" -> "Pattern"

FacetRank(label) ==
    CASE label = "Min" -> 1
      [] label = "Total digits" -> 2
      [] label = "Fraction digits" -> 3
      [] label = "Min length" -> 4
      [] label = "Max length" -> 5
      [] label = "Pattern" -> 6

\* C11: the doc block of a SimpleType has one line per facet that the
\* restriction sets and no other facet line, in the order Min, Total
\* digits, Fraction digits, Min length, Max length, Pattern, whatever the
\* order of the facets in the document; Max length is before Pattern.
C11_FacetLinesInFixedOrder ==
    SimpleTypeRendered =>
        /\ {ts.docs[i].label : i \in 1..Len(ts.docs)}
              = {FacetLabel(node.n.facets[i].tag) : i \in 1..Len(node.n.facets)}
        /\ Len(ts.docs) = Len(node.n.facets)
        /\ \A i, j \in 1..Len(ts.docs) :
              i < j => FacetRank(ts.docs[i].label) < FacetRank(ts.docs[j].label)

\* a restriction with pattern, then maxLength, then minInclusive was
\* rendered with the lines Min, Max length, Pattern
C11_Witness ==
    /\ SimpleTypeRendered
    /\ Len(node.n.facets) = 3
    /\ node.n.facets[1].tag = "pattern"
    /\ node.n.facets[2].tag = "maxLength"
    /\ node.n.facets[3].tag = "minInclusive"
    /\ Len(ts.docs) = 3
    /\ ts.docs[1].label = "Min"
    /\ ts.docs[2].label = "Max length"
    /\ ts.docs[3].label = "Pattern"

NameRendered == node.tag = "name" /\ ts # NoTs

\* p is a literal prefix of name
LiteralPrefix(p, name) ==
    Len(p) <= Len(name) /\ \A k \in 1..Len(p) : name[k] = p[k]

\* the entries of stripPrefixes that are a prefix of the name
MatchingEntries(name) ==
    {i \in 1..Len(stripPrefixes) : LiteralPrefix(stripPrefixes[i], name)}

\* the name without the first entry that matches it
Remainder(name) ==
    IF MatchingEntries(name) = {} THEN name
    ELSE LET first == CHOOSE i \in MatchingEntries(name) :
                          \A j \in MatchingEntries(name) : i <= j
         IN  [k \in 1..(Len(name) - Len(stripPrefixes[first])) |->
                 name[k + Len(stripPrefixes[first])]]

\* C12: getTSTypeName strips the first entry of stripPrefixes, in order,
\* that is a literal prefix of the name, and no other entry, also when a
\* later entry matches the name or what is left of it; what is left is
\* converted to PascalCase; a name that no entry matches is converted whole.
C12_FirstPrefixOnly ==
    NameRendered => ts.text = toPascalCase(Remainder(node.n.name))

\* tta with the prefixes t, tt: t is stripped, and neither tt, which
\* matches the name, nor t again, which matches what is left
C12_Witness ==
    /\ NameRendered
    /\ node.n.name = <<"t", "t", "a">>
    /\ stripPrefixes = << <<"t">>, <<"t", "t">> >>
    /\ ts.text = <<"T", "a">>

RefResolved == node.tag = "ref" /\ ts # NoTs

\* the places of the separators of a qualified name
Separators(qname) == {i \in 1..Len(qname) : qname[i] = ":"}

AliasOf(qname) ==
    SubSeq(qname, 1, (CHOOSE i \in Separators(qname) : TRUE) - 1)

LocalOf(qname) ==
    SubSeq(qname, (CHOOSE i \in Separators(qname) : TRUE) + 1, Len(qname))

Declared(schema, alias) ==
    \E a \in 1..Len(schema.aliasedSchemas) :
        schema.aliasedSchemas[a].key = alias

\* C15: resolveRef returns {own namespace, name} for a name without alias,
\* {aliasedSchemas[alias], name} for alias:name with a declared alias, and
\* null for a name with more than one separator, with an alias that is not
\* declared, or without local name.
C15_ResolveRef ==
    RefResolved =>
        LET q == node.n.qname
            schema == node.n.schema
        IN  /\ (Separators(q) = {} /\ q # <<>>) =>
                  ts.ref = [null |-> FALSE, namespace |-> schema.namespace,
                            name |-> q]
            /\ (Cardinality(Separators(q)) = 1 /\ LocalOf(q) # <<>>
                   /\ Declared(schema, AliasOf(q))) =>
                  ts.ref = [null |-> FALSE,
                            namespace |-> MapGet(schema.aliasedSchemas, AliasOf(q)),
                            name |-> LocalOf(q)]
            /\ (Cardinality(Separators(q)) > 1
                   \/ q = <<>>
                   \/ (Cardinality(Separators(q)) = 1
                        /\ (LocalOf(q) = <<>>
                            \/ (AliasOf(q) # <<>>
                                /\ ~Declared(schema, AliasOf(q)))))) =>
                  ts.ref = NullRef

\* C19: a ComplexType with exactly one variant renders the base type
\* intersected with the record of that variant, without the parentheses of
\* a union: the record has the fields of the variant, one per element, in
\* order, and no undefined-typed field.
C19_SingleVariant ==
    (ComplexTypeRendered /\ Len(obj.variants) = 1) =>
        /\ ts.k = "XmlElement"
        /\ ~ts.union
        /\ Len(ts.arms) = 1
        /\ Len(ts.arms[1]) = Len(obj.variants[1])
        /\ \A f \in 1..Len(ts.arms[1]) :
              /\ ts.arms[1][f].name = obj.variants[1][f].name
              /\ ts.arms[1][f].type # TsUndefined

\* a complexType with a sequence of two elements and no choice was rendered
C19_Witness ==
    /\ ComplexTypeRendered
    /\ Len(node.n.sequence) = 2 /\ node.n.choice = <<>>
    /\ Len(obj.variants) = 1
    /\ Len(ts.arms) = 1 /\ Len(ts.arms[1]) = 2 /\ ~ts.union
====
